---- MODULE Spec2Model ----
(***************************************************************************)
(* The background processing pipeline of dialogos-api: the two            *)
(* BackgroundProcessor instances (src/app.py and src/routes/api.py), each *)
(* with its own queue.Queue and its own daemon worker thread running      *)
(* process_queue, the request handlers that feed them, the in-memory      *)
(* message store IN_MEMORY_MESSAGES, the artifact files under             *)
(* BASE_DATA_DIR and the reader load_visualization_data.                  *)
(***************************************************************************)
EXTENDS Integers, Sequences, FiniteSets, TLC

\* ------------------------------------------------------------------ bounds
\* Tasks created by start_task over a run.
MaxTasks == 2
\* Rows of the table a task's data converts to.
MaxN == 2
\* Messages of a list given to the branch analysis.
MaxMsgs == 3

\* ------------------------------------------------------- program constants
\* get_embeddings: batch_size = 100
batch_size == 100

\* The keys of IN_MEMORY_MESSAGES (the last binding of config.py).
ChatTypes == {"chatgpt", "deepseek"}
\* The two module-level BackgroundProcessor() instances.
Procs == {"app", "api"}
\* A task without a file (file_path = None).
None == "None"
\* The files the worker's save step writes into BASE_DATA_DIR/<chat_type>,
\* in the order it writes them.
SaveOrder == <<"embeddings_2d", "clusters", "topics", "chat_titles",
               "chats_with_reflections", "messages">>
ArtifactFiles == {"embeddings_2d", "clusters", "topics", "chat_titles",
                  "chats_with_reflections"}
\* The message ids a client sends to /messages/add.
MsgIds == {"m1", "m2"}
TextKinds == {"ok", "bad"}
\* The threads of the development server (app.run serves each request on a
\* thread of its own).
Threads == {"t1", "t2"}

VARIABLES
  IN_MEMORY_MESSAGES, \* [ChatTypes -> Seq(MsgIds)]: the message store
  task_queue,         \* [Procs -> Seq(Task)]: each processor's queue.Queue
  worker,             \* [Procs -> record]: each worker thread's position and locals
  disk,               \* [ChatTypes -> [ArtifactFiles -> content]]
  messages_file,      \* [ChatTypes -> content]: BASE_DATA_DIR/<chat_type>_messages.json
  reader,             \* a request thread inside load_visualization_data
  puts,               \* history: [Procs -> Seq(seq)], the tasks put on each queue, in order
  gets,               \* history: [Procs -> Seq(seq)], the tasks each worker dequeued, in order
  outcome,            \* history: Seq(record), what became of each task created:
                      \* its status, the stage it ended in, the partition's message
                      \* list when it was loaded (snap, kept unless the task
                      \* fails), and the provider calls of a failed embedding
  topic_call,         \* one call of generate_topic_for_cluster: its inputs and result
  branch_call,        \* a caller of analyze_branches: its list and the results
  status_reply,       \* the last answer of GET /process/status/<task_id>
  clock,              \* the system clock that time.time() and datetime.now() read
  request,            \* [Threads -> record]: the request each serving thread handles
  app,                \* the server process: where its startup is, and whether it
                      \* was started again
  background_tasks    \* services/background_tasks.py: its module globals, and
                      \* the threads inside start_background_tasks

\* The clock, the serving threads, the process and the background tasks
\* module.
reqvars == <<clock, request, app, background_tasks>>

\* The state of the calls and requests that are checked in specifications of
\* their own.
fnvars == <<topic_call, branch_call, status_reply, reqvars>>

vars == <<IN_MEMORY_MESSAGES, task_queue, worker, disk, messages_file, reader,
          puts, gets, outcome, fnvars>>

\* ------------------------------------------------------------------ helpers
Missing == [gen |-> 0, state |-> "missing", len |-> 0]
NoMessagesFile == [gen |-> 0, state |-> "missing", msgs |-> <<>>]
NoTask == [file_path |-> None, seq |-> 0]

\* class Task: its file_path, and seq, the history's name for the object (the
\* task_id string labels log lines only and is left out of the state).
Task(file_path, seq) == [file_path |-> file_path, seq |-> seq]

\* The locals of process_queue blocked in task_queue.get().
Idle ==
  [pc |-> "get", task |-> NoTask, chat_type |-> None, texts |-> <<>>,
   n |-> 0, titles |-> 0, clusters |-> <<>>, clusters_is_list |-> FALSE,
   topics |-> <<>>, labelled |-> {}, opened |-> FALSE]

\* No function call is under way.
NoCall == [pc |-> "none"]

\* The process past its startup, serving requests, not started again so far.
Serving == [pc |-> "serving", restarted |-> FALSE]

\* The threads that call start_background_tasks.
Callers == {"c1", "c2", "c3"}

\* services/background_tasks.py after import: _background_tasks_started is
\* False, _lock is free, no fetch_and_store_models thread was started, and
\* no thread is inside start_background_tasks (calls counts the calls made).
Imported ==
  [started |-> FALSE, lock |-> None, fetch_threads |-> 0,
   pc |-> [t \in Callers |-> "out"], calls |-> 0]

\* A serving thread with no request.
NoRequest ==
  [pc |-> "idle", type |-> None, chat_name |-> None, message_id |-> None,
   timestamp |-> 0]

IdleReader ==
  [pc |-> "idle", dir |-> None, error |-> FALSE,
   data |-> [f \in ArtifactFiles |-> Missing]]

\* The processes after construction: empty store, empty queues, idle
\* workers, no request under way, no persisted message list.
Started ==
  /\ IN_MEMORY_MESSAGES = [c \in ChatTypes |-> <<>>]
  /\ task_queue = [p \in Procs |-> <<>>]
  /\ worker = [p \in Procs |-> Idle]
  /\ messages_file = [c \in ChatTypes |-> NoMessagesFile]
  /\ reader = IdleReader
  /\ puts = [p \in Procs |-> <<>>]
  /\ gets = [p \in Procs |-> <<>>]
  /\ outcome = <<>>
  /\ clock = 0
  /\ request = [t \in Threads |-> NoRequest]
  /\ app = Serving
  /\ background_tasks = Imported

\* The program after construction on an empty data directory.
Constructed ==
  /\ Started
  /\ disk = [c \in ChatTypes |-> [f \in ArtifactFiles |-> Missing]]

Init ==
  /\ Constructed
  /\ topic_call = NoCall
  /\ branch_call = NoCall
  /\ status_reply = NoCall

\* --------------------------------------------------------------- producers
\* queue.Queue.put: the task joins the tail of the queue.
QueuePut(q, task) == Append(q, task)

\* start_task of processor p: task_id = f"{time.time()}", then
\* task_queue.put(Task(task_id, file_path)). The history notes the task_id
\* returned (the clock reading; str of a float is one-to-one) and the
\* partition whose append made the caller start the task (None for other
\* callers); the task itself carries no partition.
start_task(p, file_path, partition) ==
  /\ Len(outcome) < MaxTasks
  /\ LET seq == Len(outcome) + 1 IN
     /\ task_queue' = [task_queue EXCEPT ![p] = QueuePut(@, Task(file_path, seq))]
     /\ puts' = [puts EXCEPT ![p] = Append(@, seq)]
     /\ outcome' = Append(outcome, [status |-> "queued", stage |-> None, snap |-> <<>>,
                                    provider_error |-> FALSE, calls |-> 0,
                                    failed_call |-> 0, partition |-> partition,
                                    task_id |-> clock])

\* periodic_processing (src/app.py): every five minutes, start_task() on the
\* app module's processor.
periodic_processing ==
  /\ start_task("app", None, None)
  /\ UNCHANGED <<IN_MEMORY_MESSAGES, worker, disk, messages_file, reader, gets>>
  /\ UNCHANGED fnvars

\* POST /messages/add: the early returns are the guard (a field the
\* request lacks is None here, a missing text "");
\* then the message is appended to the partition's list in place and start_task() is called on the
\* routes module's processor.
add_message(type, chat_name, message_id, text) ==
  /\ type \in ChatTypes
  /\ chat_name # None /\ message_id # None /\ text # ""
  /\ ~ \E i \in 1..Len(IN_MEMORY_MESSAGES[type]) :
         /\ IN_MEMORY_MESSAGES[type][i].message_id = message_id
         /\ IN_MEMORY_MESSAGES[type][i].chat_name = chat_name
  /\ IN_MEMORY_MESSAGES' =
       [IN_MEMORY_MESSAGES EXCEPT
          ![type] = Append(@, [chat_name |-> chat_name, message_id |-> message_id])]
  /\ start_task("api", None, type)
  /\ UNCHANGED <<worker, disk, messages_file, reader, gets>>
  /\ UNCHANGED fnvars

\* POST /messages/clear: the partition is rebound to a new empty list.
clear_messages(type) ==
  /\ type \in ChatTypes
  /\ IN_MEMORY_MESSAGES[type] # <<>>
  /\ IN_MEMORY_MESSAGES' = [IN_MEMORY_MESSAGES EXCEPT ![type] = <<>>]
  /\ UNCHANGED <<task_queue, worker, disk, messages_file, reader, puts, gets,
                 outcome>>
  /\ UNCHANGED fnvars

\* POST /process: the upload is saved as temp/<time.time()>.json and
\* start_task(file_path) is called on the routes module's processor. What the
\* file holds is read when the worker loads it.
process_data(type) ==
  /\ type \in ChatTypes
  /\ start_task("api", "temp.json", None)
  /\ UNCHANGED <<IN_MEMORY_MESSAGES, worker, disk, messages_file, reader, gets>>
  /\ UNCHANGED fnvars

\* ----------------------------------------------------------- pure functions
Min(a, b) == IF a < b THEN a ELSE b
Max(a, b) == IF a > b THEN a ELSE b
SeqsUpTo(S, n) == UNION {[1..k -> S] : k \in 0..n}

\* get_embeddings, the loop over batches from index i (1-based here): the batch
\* is texts[i : i + batch_size] without its empty or non-string entries; an
\* empty batch is skipped; the provider call numbered fail_at raises, which
\* the function's except turns into None; otherwise the batch's vectors are
\* appended, one per text sent.
RECURSIVE EmbedFrom(_, _, _, _, _)
EmbedFrom(texts, i, count, calls, fail_at) ==
  IF i > Len(texts)
  THEN [none |-> FALSE, count |-> count, calls |-> calls]
  ELSE LET batch_texts ==
             {j \in i..Min(i + batch_size - 1, Len(texts)) : texts[j] = "ok"}
       IN  IF batch_texts = {}
           THEN EmbedFrom(texts, i + batch_size, count, calls, fail_at)
           ELSE IF calls + 1 = fail_at
           THEN [none |-> TRUE, count |-> 0, calls |-> calls + 1]
           ELSE EmbedFrom(texts, i + batch_size,
                          count + Cardinality(batch_texts), calls + 1, fail_at)

\* get_embeddings with the failed call made a second time before giving up.
get_embeddings_retrying(texts, has_key, fail_at) ==
  IF texts = <<>> THEN [none |-> FALSE, count |-> 0, calls |-> 0]
  ELSE IF ~has_key THEN [none |-> TRUE, count |-> 0, calls |-> 0]
  ELSE LET r == EmbedFrom(texts, 1, 0, 0, fail_at)
       IN  IF r.none THEN [r EXCEPT !.calls = @ + 1] ELSE r

\* get_embeddings(texts): [] for no texts; None when OPENAI_API_KEY is unset or
\* a provider call raises; otherwise the vectors of all batches (count of them).
get_embeddings(texts, has_key, fail_at) ==
  IF texts = <<>> THEN [none |-> FALSE, count |-> 0, calls |-> 0]
  ELSE IF ~has_key THEN [none |-> TRUE, count |-> 0, calls |-> 0]
  ELSE EmbedFrom(texts, 1, 0, 0, fail_at)

\* The worker's test after get_embeddings:
\* not embeddings or len(embeddings) != len(messages).
EmbeddingsRejected(embeddings, messages) ==
  embeddings.none \/ embeddings.count = 0 \/ embeddings.count # Len(messages)

\* min_cluster_size = max(2, len(embeddings) // 10)
min_cluster_size(n) == Max(2, n \div 10)

\* The rows DBSCAN can put in cluster 0: none, or at least min_samples of them
\* (a cluster holds a core point and its neighbourhood). For a table of up to
\* MaxN rows every such set is taken; for the long table three of them: no
\* row, the first min_samples rows, every row.
ClusterMembers(n, min_samples) ==
  IF n <= MaxN
  THEN {m \in SUBSET (1..n) : m = {} \/ Cardinality(m) >= min_samples}
  ELSE {1..k : k \in {0, min_samples, n}}

\* DBSCAN(min_samples).labels_: one label per row, -1 for noise. (The tables
\* of the model leave room for one cluster, 0.)
Labelings(n, min_samples) ==
  {[i \in 1..n |-> IF i \in m THEN 0 ELSE -1] : m \in ClusterMembers(n, min_samples)}

\* perform_clustering's fallback when DBSCAN raises: the list [-1] * len(embeddings).
AllNoise(n) == [i \in 1..n |-> -1]

\* Every label of clusters, the noise label included.
TopicKeysWithNoise(clusters) == {clusters[i] : i \in 1..Len(clusters)}

\* The keys of the worker's topics dict: set(clusters) without -1.
TopicKeys(clusters) == {clusters[i] : i \in 1..Len(clusters)} \ {-1}

\* [i for i, c in enumerate(clusters) if c == cluster_id]
cluster_indices(clusters, cluster_id) ==
  {i \in 1..Len(clusters) : clusters[i] = cluster_id}

\* The whole list of a cluster's texts, by its length.
sample_all(count) == count

\* cluster_messages[:5], by the length of the list.
sample_messages(count) == Min(count, 5)

\* The calls of generate_topic_for_cluster the worker's topic loop makes:
\* one per key of topics, with the sample of the cluster's texts.
TopicCalls(clusters) ==
  {[cluster_id |-> cluster_id,
    texts |-> sample_messages(Cardinality(cluster_indices(clusters, cluster_id)))] :
     cluster_id \in TopicKeys(clusters)}

\* What process_queue's line `df = process_chatgpt_messages(data) if chat_type
\* == "chatgpt" else process_claude_messages(data)` binds df to:
\* process_chatgpt_messages returns a list of records (df.to_dict("records"),
\* or []), the other branch a DataFrame.
ConvertedKind(chat_type) == IF chat_type = "chatgpt" THEN "list" ELSE "DataFrame"

\* A table one row longer than an embedding batch, of one chat.
LongTable == [texts |-> [i \in 1..(batch_size + 1) |-> "ok"], titles |-> 1]

\* The tables process_claude_messages can return: the text column (each text
\* a non-empty string or not) and the number of distinct chat_name values;
\* every table of up to MaxN rows, and the long one.
DataFrames ==
  {d \in [texts : SeqsUpTo(TextKinds, MaxN), titles : 0..MaxN] :
     /\ d.titles <= Len(d.texts)
     /\ (d.titles = 0) = (d.texts = <<>>)} \cup {LongTable}

\* The provider calls get_embeddings makes at most: one per batch.
MaxCalls(texts) == (Len(texts) + batch_size - 1) \div batch_size

\* What one call of client.chat.completions.create does: it raises, or it
\* returns a completion whose content is None, blank, or a label.
Responses == {"raise", "none", "blank", "Topic"}

\* The calls that end in the except clause of generate_topic_for_cluster:
\* the provider raised, or .strip() was called on a None content.
Raises(response) == response \in {"raise", "none"}

\* response.choices[0].message.content.strip()
strip(content) == IF content = "blank" THEN "" ELSE content

\* What the provider does on each call of one generate_topic_for_cluster.
ProviderScripts == [1..3 -> Responses]

\* A sleep of one second whatever the attempt.
backoff_constant(attempt) == 1

\* time.sleep(2 ** attempt): the seconds slept after a failed attempt that
\* is not the last.
backoff(attempt) == 2 ^ attempt

\* The loop of generate_topic_for_cluster from `attempt` on, slept seconds
\* of backoff behind it.
RECURSIVE TopicAttempts(_, _, _, _)
TopicAttempts(script, attempt, attempts, slept) ==
  IF attempt >= attempts
  THEN [raised |-> FALSE, topic |-> "Error", calls |-> attempt, slept |-> slept]
  ELSE LET response == script[attempt + 1] IN
       IF ~Raises(response)
       THEN [raised |-> FALSE,
             topic |-> IF strip(response) # "" THEN strip(response) ELSE "Miscellaneous",
             calls |-> attempt + 1, slept |-> slept]
       ELSE IF attempt < attempts - 1
            THEN TopicAttempts(script, attempt + 1, attempts, slept + backoff(attempt))
            ELSE [raised |-> FALSE, topic |-> "Error", calls |-> attempt + 1,
                  slept |-> slept]

\* generate_topic_for_cluster giving up after the second failure.
generate_topic_two_attempts(messages_are_str, script) ==
  IF ~messages_are_str
  THEN [raised |-> TRUE, topic |-> None, calls |-> 0, slept |-> 0]
  ELSE TopicAttempts(script, 0, 2, 0)

\* generate_topic_for_cluster(messages): "\n- ".join(messages) raises when a
\* message is not a string, before the first attempt; then up to three
\* attempts, sleeping 2 ** attempt seconds after the first and the second
\* failure.
generate_topic_for_cluster(messages_are_str, script) ==
  IF ~messages_are_str
  THEN [raised |-> TRUE, topic |-> None, calls |-> 0, slept |-> 0]
  ELSE TopicAttempts(script, 0, 3, 0)

\* ---------------------------------------------------------- branch analysis
\* A message as analyze_branches reads it: chat_name, message_id,
\* parent_message_id (0 for None or absent), timestamp in seconds; with the
\* branch_id add_message gives a message by default and without the
\* parent_message key add_message stores a parent under (0 for absent).
\* lacks is the set of keys the dict does not have (none here).
Message(chat_name, message_id, parent_message_id, timestamp) ==
  [chat_name |-> chat_name, message_id |-> message_id,
   parent_message_id |-> parent_message_id, timestamp |-> timestamp,
   branch_id |-> "0", parent_message |-> 0, lacks |-> {}]

\* The keys GET /messages/branched requires of a message.
RequiredKeys == {"chat_name", "branch_id", "message_id", "text", "timestamp"}

\* `all(key in msg for key in [...])`
HasRequiredKeys(msg) == msg.lacks \cap RequiredKeys = {}

\* The collect loop of analyze_branches subscripts m["timestamp"] and
\* m["chat_name"] of every message: KeyError when one lacks the key.
CollectLoopRaises(messages) ==
  \E i \in 1..Len(messages) :
    messages[i].lacks \cap {"timestamp", "chat_name"} # {}

\* The messages of one chat, in input order: chats[name]["messages"].
ChatMessages(messages, name) ==
  SelectSeq(messages, LAMBDA m : m.chat_name = name)

\* The children appended under one parent id, in input order.
ChildrenOf(chat_messages, pid) ==
  SelectSeq(chat_messages, LAMBDA m : m.parent_message_id = pid)

\* The keys of parent_children in insertion order: each truthy
\* parent_message_id in the order of its first appearance.
RECURSIVE ParentOrder(_, _, _)
ParentOrder(chat_messages, i, seen) ==
  IF i > Len(chat_messages) THEN <<>>
  ELSE LET pid == chat_messages[i].parent_message_id IN
       IF pid = 0 \/ pid \in seen
       THEN ParentOrder(chat_messages, i + 1, seen)
       ELSE <<pid>> \o ParentOrder(chat_messages, i + 1, seen \cup {pid})

\* list.sort(key=timestamp_obj): stable, ascending.
RECURSIVE SortByTimestamp(_)
SortByTimestamp(children) ==
  IF Len(children) <= 1 THEN children
  ELSE LET sorted == SortByTimestamp(SubSeq(children, 1, Len(children) - 1))
           c == children[Len(children)]
           k == Cardinality({j \in 1..Len(sorted) : sorted[j].timestamp <= c.timestamp})
       IN SubSeq(sorted, 1, k) \o <<c>> \o SubSeq(sorted, k + 1, Len(sorted))

\* The message appended after the messages below it.
VisitAfter(msg, below) == below \o <<msg>>

\* collect appends msg to branch_messages before it loops over the
\* children of msg.
Visit(msg, below) == <<msg>> \o below

\* collect(msg) looking at the flagged child only.
collect_one_level(parent_children, msg, path) ==
  [raised |-> FALSE, msgs |-> <<msg>>]

\* collect(msg): msg, then collect(c) for each child c of msg, depth first.
\* msg["message_id"] of a message without the key raises KeyError; a
\* message met again on the path of the recursion makes it endless:
\* RecursionError.
RECURSIVE collect(_, _, _)
collect(parent_children, msg, path) ==
  IF "message_id" \in msg.lacks \/ msg.message_id \in path
  THEN [raised |-> TRUE, msgs |-> <<>>]
  ELSE LET children == IF msg.message_id \in DOMAIN parent_children
                       THEN parent_children[msg.message_id] ELSE <<>>
           CollectEach[k \in 1..(Len(children) + 1)] ==
             IF k > Len(children) THEN [raised |-> FALSE, msgs |-> <<>>]
             ELSE LET first == collect(parent_children, children[k],
                                       path \cup {msg.message_id})
                      rest == CollectEach[k + 1]
                  IN [raised |-> first.raised \/ rest.raised,
                      msgs |-> first.msgs \o rest.msgs]
       IN [raised |-> CollectEach[1].raised, msgs |-> Visit(msg, CollectEach[1].msgs)]

\* The test every gap passes.
AnyGap(gap) == TRUE

\* `if gap > 60`
IsEditGap(gap) == gap > 60

\* The inner loop stopping after the first gap.
BranchesOfFirstGap(parent_children, parent, children, i) ==
  IF Len(children) < 2 \/ ~IsEditGap(children[2].timestamp - children[1].timestamp)
  THEN [raised |-> FALSE, edit_branches |-> <<>>]
  ELSE LET collected == collect(parent_children, children[2], {}) IN
       [raised |-> collected.raised,
        edit_branches |->
          <<[parent_message |-> parent, original |-> children[1],
             edit |-> children[2],
             time_gap |-> children[2].timestamp - children[1].timestamp,
             branch_messages |-> collected.msgs]>>]

\* The inner loop of the detect phase for one parent whose children are
\* sorted: a branch for each gap that passes the test, from gap i on.
RECURSIVE BranchesOf(_, _, _, _)
BranchesOf(parent_children, parent, children, i) ==
  IF i >= Len(children) THEN [raised |-> FALSE, edit_branches |-> <<>>]
  ELSE LET gap == children[i + 1].timestamp - children[i].timestamp
           rest == BranchesOf(parent_children, parent, children, i + 1)
       IN IF ~IsEditGap(gap) THEN rest
          ELSE LET collected == collect(parent_children, children[i + 1], {}) IN
               [raised |-> collected.raised \/ rest.raised,
                edit_branches |->
                  <<[parent_message |-> parent, original |-> children[i],
                     edit |-> children[i + 1], time_gap |-> gap,
                     branch_messages |-> collected.msgs]>> \o rest.edit_branches]

\* The detect phase of one chat from the k-th parent key on: a parent with
\* more than one child has its children sorted in place, then its gaps
\* examined.
RECURSIVE Detect(_, _, _, _)
Detect(order, k, parent_children, edit_branches) ==
  IF k > Len(order)
  THEN [raised |-> FALSE, parent_children |-> parent_children,
        edit_branches |-> edit_branches]
  ELSE LET parent == order[k] IN
       IF Len(parent_children[parent]) <= 1
       THEN Detect(order, k + 1, parent_children, edit_branches)
       ELSE LET sorted == [parent_children EXCEPT
                             ![parent] = SortByTimestamp(@)]
                found == BranchesOf(sorted, parent, sorted[parent], 1)
            IN IF found.raised
               THEN [raised |-> TRUE, parent_children |-> sorted,
                     edit_branches |-> edit_branches]
               ELSE Detect(order, k + 1, sorted,
                           edit_branches \o found.edit_branches)

\* stats[name] for one chat.
ChatStats(messages, name) ==
  LET chat_messages == ChatMessages(messages, name)
      order == ParentOrder(chat_messages, 1, {})
      parent_children ==
        [pid \in {order[k] : k \in 1..Len(order)} |-> ChildrenOf(chat_messages, pid)]
      detected == Detect(order, 1, parent_children, <<>>)
  IN [raised |-> detected.raised, messages |-> chat_messages,
      parent_children |-> detected.parent_children,
      edit_branches |-> detected.edit_branches]

\* analyze_branches(messages): the stats of every chat, or the exception
\* that leaves the function.
analyze_branches(messages) ==
  LET names == {messages[i].chat_name : i \in 1..Len(messages)}
      stats == [name \in names |-> ChatStats(messages, name)]
  IN IF CollectLoopRaises(messages) \/ \E name \in names : stats[name].raised
     THEN [raised |-> TRUE, stats |-> <<>>]
     ELSE [raised |-> FALSE,
           stats |-> [name \in names |->
                        [messages |-> stats[name].messages,
                         parent_children |-> stats[name].parent_children,
                         edit_branches |-> stats[name].edit_branches]]]

\* The caller's list sorted in place.
MessagesSorted(messages) == SortByTimestamp(messages)

\* The caller's list after analyze_branches: the function reads it and
\* builds its own dicts ({**m, "timestamp_obj": ts}).
MessagesAfter(messages) == messages

\* The grouping loop of GET /messages/branched: a message that lacks one of
\* the required keys is logged and passed over.
WithRequiredKeys(messages) == SelectSeq(messages, HasRequiredKeys)

\* GET /messages/branched on a partition holding `messages`: of the
\* messages that have the five required keys, per chat, main_branch is the
\* messages of branch_id "0", and every other branch_id maps to its
\* messages and to the message its first message names under the key
\* parent_message. The route does not call analyze_branches.
get_branched_messages(messages) ==
  LET valid == WithRequiredKeys(messages)
      names == {valid[i].chat_name : i \in 1..Len(valid)} IN
  [name \in names |->
     LET chat_messages == ChatMessages(valid, name)
         branched_messages == SelectSeq(chat_messages, LAMBDA m : m.branch_id # "0")
         ids == {branched_messages[i].branch_id : i \in 1..Len(branched_messages)}
     IN [main_branch |-> SelectSeq(chat_messages, LAMBDA m : m.branch_id = "0"),
         branches |->
           [branch_id \in ids |->
              LET of_branch == SelectSeq(branched_messages,
                                         LAMBDA m : m.branch_id = branch_id)
                  parents == SelectSeq(chat_messages,
                               LAMBDA m : m.message_id = of_branch[1].parent_message)
                  main_parents == SelectSeq(parents, LAMBDA m : m.branch_id = "0")
              IN [parent_message |->
                    IF main_parents # <<>> THEN main_parents[1]
                    ELSE IF parents # <<>> THEN parents[1] ELSE None,
                  branch_messages |-> of_branch]]]]

\* ------------------------------------------------------------------ worker
\* A queue that hands out its newest item.
QueueGetItemLifo(q) == q[Len(q)]

\* queue.Queue.get returns the item at the head of the queue.
QueueGetItem(q) == Head(q)

\* A get that leaves the item on the queue.
QueueGetRestPeek(q) == q

\* queue.Queue.get removes the item it returns.
QueueGetRest(q) == Tail(q)

\* A `return` in the place of the `continue`: the thread ends.
Returned(w) == [Idle EXCEPT !.pc = "exited"]

\* `continue` inside `while True` (lines 52 and 63): the thread goes back to
\* task_queue.get().
Continued(w) == Idle

\* The try/except placed around the loop instead of inside it: the first
\* exception ends the thread.
CaughtOutsideLoop(w) == [Idle EXCEPT !.pc = "exited"]

\* `except Exception as e: logger.error(...)` inside `while True`: the thread
\* goes back to task_queue.get().
Caught(w) == Idle

\* The loop body falling out of `while True` after its last statement.
LoopEnded(w) == [Idle EXCEPT !.pc = "exited"]

\* The end of the loop body (line 108): `while True` takes the thread back
\* to task_queue.get().
LoopedBack(w) == Idle

\* The history of a task that changes status; the snapshot noted at load is
\* dropped when the task fails.
SetOutcome(seq, status, stage) ==
  outcome' = [outcome EXCEPT ![seq] =
    [@ EXCEPT !.status = status, !.stage = stage,
              !.snap = IF status = "failed" THEN <<>> ELSE @]]

\* A stage raised: the except clause logs the failure.
Fail(p, stage) ==
  /\ worker' = [worker EXCEPT ![p] = Caught(@)]
  /\ SetOutcome(worker[p].task.seq, "failed", stage)

\* process_queue: task = self.task_queue.get()
Dequeue(p) ==
  /\ worker[p].pc = "get"
  /\ task_queue[p] # <<>>
  /\ LET task == QueueGetItem(task_queue[p]) IN
     /\ worker' = [worker EXCEPT ![p] = [Idle EXCEPT !.pc = "load", !.task = task]]
     /\ gets' = [gets EXCEPT ![p] = Append(@, task.seq)]
     /\ SetOutcome(task.seq, "running", None)
  /\ task_queue' = [task_queue EXCEPT ![p] = QueueGetRest(@)]
  /\ UNCHANGED <<IN_MEMORY_MESSAGES, disk, messages_file, reader, puts>>
  /\ UNCHANGED fnvars

\* The chat types detect_chat_type can name.
DetectedTypes == ChatTypes

\* process_queue, the load step: a file task reads its file (load_json may
\* raise) and asks detect_chat_type; a task without a file takes
\* IN_MEMORY_MESSAGES.get("chatgpt", []). `if not data: continue` ends the task.
\* The history records the partition's message list as it is at this moment.
Load(p) ==
  LET w == worker[p] IN
  /\ w.pc = "load"
  /\ IF w.task.file_path # None
     THEN \/ Fail(p, "load")
          \/ \E chat_type \in DetectedTypes, empty \in BOOLEAN :
               IF empty
               THEN /\ worker' = [worker EXCEPT ![p] = Continued(w)]
                    /\ SetOutcome(w.task.seq, "noop", "load")
               ELSE /\ worker' = [worker EXCEPT ![p] =
                         [w EXCEPT !.pc = "convert", !.chat_type = chat_type]]
                    /\ outcome' = [outcome EXCEPT ![w.task.seq].snap =
                                     IN_MEMORY_MESSAGES[chat_type]]
     ELSE IF IN_MEMORY_MESSAGES["chatgpt"] = <<>>
          THEN /\ worker' = [worker EXCEPT ![p] = Continued(w)]
               /\ SetOutcome(w.task.seq, "noop", "load")
          ELSE /\ worker' = [worker EXCEPT ![p] =
                    [w EXCEPT !.pc = "convert", !.chat_type = "chatgpt"]]
               /\ outcome' = [outcome EXCEPT ![w.task.seq].snap =
                                IN_MEMORY_MESSAGES["chatgpt"]]
  /\ UNCHANGED <<IN_MEMORY_MESSAGES, task_queue, disk, messages_file, reader,
                 puts, gets>>
  /\ UNCHANGED fnvars

\* process_queue, lines 55-59: df is bound, then messages = df["text"].tolist().
\* Indexing a list with "text" raises TypeError, so a task of chat type
\* "chatgpt" ends in the except clause; the other branch may raise inside
\* process_claude_messages or yields a table.
Convert(p) ==
  LET w == worker[p] IN
  /\ w.pc = "convert"
  /\ IF ConvertedKind(w.chat_type) = "list"
     THEN Fail(p, "convert")
     ELSE \/ Fail(p, "convert")
          \/ \E df \in DataFrames :
               /\ worker' = [worker EXCEPT ![p] =
                    [w EXCEPT !.pc = "embed", !.texts = df.texts, !.titles = df.titles]]
               /\ UNCHANGED outcome
  /\ UNCHANGED <<IN_MEMORY_MESSAGES, task_queue, disk, messages_file, reader,
                 puts, gets>>
  /\ UNCHANGED fnvars

\* process_queue, lines 60-63: embeddings = get_embeddings(messages); a None,
\* empty or short result is logged as an error and the task ends (continue).
Embed(p) ==
  LET w == worker[p] IN
  /\ w.pc = "embed"
  /\ \E has_key \in BOOLEAN, fail_at \in 0..MaxCalls(w.texts) :
       LET embeddings == get_embeddings(w.texts, has_key, fail_at) IN
       IF EmbeddingsRejected(embeddings, w.texts)
       THEN /\ worker' = [worker EXCEPT ![p] = Continued(w)]
            /\ outcome' = [outcome EXCEPT ![w.task.seq] =
                 [@ EXCEPT !.status = "failed", !.stage = "embed", !.snap = <<>>,
                           !.provider_error = (has_key /\ embeddings.none),
                           !.calls = embeddings.calls,
                           !.failed_call = IF has_key /\ embeddings.none
                                           THEN fail_at ELSE 0]]
       ELSE /\ worker' = [worker EXCEPT ![p] =
                 [w EXCEPT !.pc = "reduce", !.texts = <<>>, !.n = embeddings.count]]
            /\ UNCHANGED outcome
  /\ UNCHANGED <<IN_MEMORY_MESSAGES, task_queue, disk, messages_file, reader,
                 puts, gets>>
  /\ UNCHANGED fnvars

\* process_queue, lines 66-68: TSNE(n_components=2, random_state=42)
\* .fit_transform; it raises on inputs it rejects (too few rows for its
\* perplexity, in the library versions that check).
Reduce(p) ==
  LET w == worker[p] IN
  /\ w.pc = "reduce"
  /\ \/ Fail(p, "reduce")
     \/ /\ worker' = [worker EXCEPT ![p] = [w EXCEPT !.pc = "cluster"]]
        /\ UNCHANGED outcome
  /\ UNCHANGED <<IN_MEMORY_MESSAGES, task_queue, disk, messages_file, reader,
                 puts, gets>>
  /\ UNCHANGED fnvars

\* process_queue, line 71: perform_clustering returns DBSCAN's labels_ (an
\* ndarray) or, when DBSCAN raises, the list [-1] * len(embeddings).
Cluster(p) ==
  LET w == worker[p] IN
  /\ w.pc = "cluster"
  /\ \/ \E labels \in Labelings(w.n, min_cluster_size(w.n)) :
          worker' = [worker EXCEPT ![p] =
            [w EXCEPT !.pc = "label", !.clusters = labels, !.clusters_is_list = FALSE]]
     \/ worker' = [worker EXCEPT ![p] =
          [w EXCEPT !.pc = "label", !.clusters = AllNoise(w.n), !.clusters_is_list = TRUE]]
  /\ UNCHANGED <<IN_MEMORY_MESSAGES, task_queue, disk, messages_file, reader,
                 puts, gets, outcome>>
  /\ UNCHANGED fnvars

\* What generate_topic_for_cluster returns: the provider's label, or "Error"
\* when its attempts are used up.
TopicLabels == {generate_topic_for_cluster(TRUE, script).topic : script \in ProviderScripts}

\* process_queue, lines 74-87: one topic per cluster id other than -1, each
\* from a call of generate_topic_for_cluster on the cluster's sample (noted
\* in labelled).
Label(p) ==
  LET w == worker[p] IN
  /\ w.pc = "label"
  /\ \E topics \in [TopicKeys(w.clusters) -> TopicLabels] :
       worker' = [worker EXCEPT ![p] =
         [w EXCEPT !.pc = SaveOrder[1], !.topics = topics,
                   !.labelled = TopicCalls(w.clusters)]]
  /\ UNCHANGED <<IN_MEMORY_MESSAGES, task_queue, disk, messages_file, reader,
                 puts, gets, outcome>>
  /\ UNCHANGED fnvars

\* The position of file f in the save step's order.
SaveIndex(f) == CHOOSE i \in 1..Len(SaveOrder) : SaveOrder[i] = f
SaveStages == {SaveOrder[i] : i \in 1..Len(SaveOrder)}

\* The length of what json.dump writes into artifact f: embeddings_2d has a
\* row per embedding, clusters a label per embedding, topics an entry per
\* key, chat_titles df["chat_name"].unique(), chats_with_reflections [].
DumpedLen(w, f) ==
  CASE f = "embeddings_2d" -> w.n
    [] f = "clusters" -> Len(w.clusters)
    [] f = "topics" -> Cardinality(DOMAIN w.topics)
    [] f = "chat_titles" -> w.titles
    [] OTHER -> 0

\* Whether computing or encoding the value to dump raises on its own:
\* clusters.tolist() when perform_clustering fell back to a list, and
\* json.dump(topics) when topics has a key (the keys come from iterating the
\* numpy labels_, and json rejects dict keys that are numpy integers).
DumpRaises(w, f) ==
  \/ f = "clusters" /\ w.clusters_is_list
  \/ f = "topics" /\ DOMAIN w.topics # {}

\* The list the worker dumps into <chat_type>_messages.json:
\* IN_MEMORY_MESSAGES.get(chat_type, []), read when the file is written.
PersistedMessages(w) == IN_MEMORY_MESSAGES[w.chat_type]

\* process_queue, lines 89-108, one `with open(..., "w")` block of SaveOrder
\* in two steps. Opening may raise (the file is untouched; os.makedirs before
\* the first block is part of it); once opened, the file is truncated.
\* Dumping may raise and leave the file partial; otherwise the file holds
\* the new content, and after the last block the task is logged completed.
Save(p) ==
  LET w == worker[p]
      f == w.pc
      c == w.chat_type
      gen == w.task.seq
      WriteFile(state, len) ==
        IF f = "messages"
        THEN /\ messages_file' = [messages_file EXCEPT ![c] =
                  [gen |-> gen, state |-> state,
                   msgs |-> IF state = "ok" THEN PersistedMessages(w) ELSE <<>>]]
             /\ UNCHANGED disk
        ELSE /\ disk' = [disk EXCEPT ![c][f] =
                  [gen |-> gen, state |-> state, len |-> len]]
             /\ UNCHANGED messages_file
  IN
  /\ w.pc \in SaveStages
  /\ IF ~w.opened
     THEN \/ /\ Fail(p, f)
             /\ UNCHANGED <<disk, messages_file>>
          \/ /\ WriteFile("partial", 0)
             /\ worker' = [worker EXCEPT ![p] = [w EXCEPT !.opened = TRUE]]
             /\ UNCHANGED outcome
     ELSE \/ /\ Fail(p, f)
             /\ UNCHANGED <<disk, messages_file>>
          \/ /\ ~DumpRaises(w, f)
             /\ WriteFile("ok", DumpedLen(w, f))
             /\ IF SaveIndex(f) < Len(SaveOrder)
                THEN /\ worker' = [worker EXCEPT ![p] =
                          [w EXCEPT !.pc = SaveOrder[SaveIndex(f) + 1],
                                    !.opened = FALSE]]
                     /\ UNCHANGED outcome
                ELSE /\ worker' = [worker EXCEPT ![p] = LoopedBack(w)]
                     /\ SetOutcome(gen, "completed", f)
  /\ UNCHANGED <<IN_MEMORY_MESSAGES, task_queue, reader, puts, gets>>
  /\ UNCHANGED fnvars

\* ------------------------------------------------------------------ reader
\* The order in which load_visualization_data reads the files.
ReadOrder == <<"embeddings_2d", "clusters", "topics", "chat_titles",
               "chats_with_reflections">>

\* GET /visualization: get_visualization_data checks the type and calls
\* load_visualization_data on the partition's directory.
get_visualization_data(type) ==
  /\ type \in ChatTypes
  /\ reader.pc \in {"idle", "done", "raised"}
  /\ reader' = [IdleReader EXCEPT !.pc = ReadOrder[1], !.dir = type]
  /\ UNCHANGED <<IN_MEMORY_MESSAGES, task_queue, worker, disk, messages_file,
                 puts, gets, outcome>>
  /\ UNCHANGED fnvars

\* load_visualization_data without its try/except: the exception reaches
\* the caller.
ReadErrorPropagates(r) == [r EXCEPT !.pc = "raised", !.error = TRUE]

\* load_visualization_data, `except Exception`: the error is logged and the
\* all-empty set returned.
ReadErrorCaught(r) == [IdleReader EXCEPT !.pc = "done", !.dir = r.dir, !.error = TRUE]

\* load_visualization_data, one file: a missing file leaves the default; a
\* file json.load cannot parse raises, and the except returns the all-empty
\* set; otherwise the content is stored under its key. After the last file
\* the data is returned.
ReadFile ==
  LET f == reader.pc
      i == CHOOSE j \in 1..Len(ReadOrder) : ReadOrder[j] = f
      content == disk[reader.dir][f]
      next == IF i < Len(ReadOrder) THEN ReadOrder[i + 1] ELSE "done"
  IN
  /\ reader.pc \in ArtifactFiles
  /\ reader' =
       CASE content.state = "missing" -> [reader EXCEPT !.pc = next]
         [] content.state = "partial" -> ReadErrorCaught(reader)
         [] OTHER -> [reader EXCEPT !.pc = next, !.data[f] = content]
  /\ UNCHANGED <<IN_MEMORY_MESSAGES, task_queue, worker, disk, messages_file,
                 puts, gets, outcome>>
  /\ UNCHANGED fnvars

ChatNames == {"Default Chat"}
RequestTypes == ChatTypes \cup {"claude"}

Next ==
  \/ periodic_processing
  \/ \E type \in RequestTypes, chat_name \in ChatNames \cup {None},
        message_id \in MsgIds \cup {None}, text \in {"text", ""} :
       add_message(type, chat_name, message_id, text)
  \/ \E type \in RequestTypes : clear_messages(type)
  \/ \E type \in RequestTypes : process_data(type)
  \/ \E p \in Procs : Dequeue(p)
  \/ \E p \in Procs : Load(p)
  \/ \E p \in Procs : Convert(p)
  \/ \E p \in Procs : Embed(p)
  \/ \E p \in Procs : Reduce(p)
  \/ \E p \in Procs : Cluster(p)
  \/ \E p \in Procs : Label(p)
  \/ \E p \in Procs : Save(p)

Spec == Init /\ [][Next]_vars

\* The serving layer reading a partition's artifacts while uploads are
\* processed: the upload route, the routes module's worker and the reader.
NextRead ==
  \/ \E type \in RequestTypes : process_data(type)
  \/ Dequeue("api")
  \/ Load("api")
  \/ Convert("api")
  \/ Embed("api")
  \/ Reduce("api")
  \/ Cluster("api")
  \/ Label("api")
  \/ Save("api")
  \/ \E type \in RequestTypes : get_visualization_data(type)
  \/ ReadFile

SpecRead == Init /\ [][NextRead]_vars

\* ------------------------------------------------------------ reads alone
\* What a file of an earlier run's directory can hold: nothing, the
\* truncated rest of a failed dump, or a dump (of one entry; of none for
\* topics, which dumps only when empty, and for chats_with_reflections).
LeftContents(f) ==
  {Missing} \cup
  {[gen |-> g, state |-> "partial", len |-> 0] : g \in 1..MaxTasks} \cup
  {[gen |-> g, state |-> "ok",
    len |-> IF f \in {"topics", "chats_with_reflections"} THEN 0 ELSE 1] :
     g \in 1..MaxTasks}

\* A directory as the tasks of one worker leave it: each task writes the
\* files in order and stops at the first failure, so a file exists only if
\* those before it do, a later file is never of a later task, and the files
\* after a truncated one are of earlier tasks.
LeftBehind(d) ==
  \A i \in 1..Len(ReadOrder), j \in 1..Len(ReadOrder) :
    (i < j /\ d[ReadOrder[j]].state # "missing") =>
      /\ d[ReadOrder[i]].state # "missing"
      /\ d[ReadOrder[i]].gen >= d[ReadOrder[j]].gen
      /\ d[ReadOrder[i]].state = "partial" => d[ReadOrder[i]].gen > d[ReadOrder[j]].gen

\* The program started on the data directory an earlier run left behind:
\* the partition that uploads are saved to holds any such directory.
InitLoad ==
  /\ Started
  /\ \E d \in [ArtifactFiles -> UNION {LeftContents(f) : f \in ArtifactFiles}] :
       /\ \A f \in ArtifactFiles : d[f] \in LeftContents(f)
       /\ LeftBehind(d)
       /\ disk = [c \in ChatTypes |->
                    IF ConvertedKind(c) = "list"
                    THEN [f \in ArtifactFiles |-> Missing] ELSE d]
  /\ topic_call = NoCall
  /\ branch_call = NoCall
  /\ status_reply = NoCall

NextLoad ==
  \/ \E type \in RequestTypes : get_visualization_data(type)
  \/ ReadFile

SpecLoad == InitLoad /\ [][NextLoad]_vars

\* ------------------------------------------------- the worker under fairness
\* One step of the thread of processor p running process_queue.
process_queue(p) ==
  \/ Dequeue(p)
  \/ Load(p)
  \/ Convert(p)
  \/ Embed(p)
  \/ Reduce(p)
  \/ Cluster(p)
  \/ Label(p)
  \/ Save(p)

\* Uploads and the routes module's worker.
NextLive ==
  \/ \E type \in RequestTypes : process_data(type)
  \/ process_queue("api")

\* The worker thread is scheduled again and again, and each of its calls
\* (file, provider, library) returns or raises: a step of process_queue that
\* stays possible is eventually taken.
SpecLive == Init /\ [][NextLive]_vars /\ WF_vars(process_queue("api"))

\* ----------------------------------------------------------- status lookup
\* The attributes of a BackgroundProcessor object: those __init__ sets and
\* the methods of the class.
ProcessorAttributes ==
  {"task_queue", "processing_thread", "start_task", "process_queue", "load_json"}

\* GET /process/status/<task_id> for a task start_task returned the id of:
\* background_processor.get_task_status(task_id) is looked up on the
\* processor; the class has no such attribute, so AttributeError is raised
\* and the route's except answers 500 with the error text and no status.
check_task_status(seq) ==
  /\ seq \in 1..Len(outcome)
  /\ "get_task_status" \notin ProcessorAttributes
  /\ status_reply' =
       [pc |-> "answered", task |-> seq, code |-> 500, status |-> None,
        error |-> "AttributeError"]
  /\ UNCHANGED <<IN_MEMORY_MESSAGES, task_queue, worker, disk, messages_file,
                 reader, puts, gets, outcome, topic_call, branch_call, reqvars>>

NextStatus ==
  \/ \E type \in RequestTypes : process_data(type)
  \/ Dequeue("api")
  \/ Load("api")
  \/ Convert("api")
  \/ Embed("api")
  \/ Reduce("api")
  \/ Cluster("api")
  \/ Label("api")
  \/ Save("api")
  \/ \E seq \in 1..MaxTasks : check_task_status(seq)

SpecStatus == Init /\ [][NextStatus]_vars

\* ------------------------------------------------------ serving threads
\* The readings the clock takes over a run.
MaxClock == 1

\* The clock advances between two readings, or does not.
Tick ==
  /\ clock < MaxClock
  /\ clock' = clock + 1
  /\ UNCHANGED <<IN_MEMORY_MESSAGES, task_queue, worker, disk, messages_file,
                 reader, puts, gets, outcome, topic_call, branch_call,
                 status_reply, request, app, background_tasks>>

\* generate_text: f"msg_{timestamp}_human" and f"msg_{timestamp}_assistant".
GeneratedId(timestamp, sender) ==
  "msg_" \o ToString(timestamp) \o "_" \o sender

\* list.extend replaced by an assignment of the new messages.
ExtendReplacing(list, new) == new

\* list.extend: the new messages join the end of the list, in place.
Extend(list, new) == list \o new

\* POST /generate up to the provider call: the early returns are the guard
\* (an empty prompt, an unknown chat_type); chat_name and
\* timestamp = datetime.now().isoformat() are taken before the provider is
\* called.
generate_text(t, chat_type, chat_name, prompt) ==
  /\ request[t].pc = "idle"
  /\ prompt # ""
  /\ chat_type \in ChatTypes
  /\ request' = [request EXCEPT ![t] =
       [pc |-> "provider", type |-> chat_type, chat_name |-> chat_name,
        message_id |-> None, timestamp |-> clock]]
  /\ UNCHANGED <<IN_MEMORY_MESSAGES, task_queue, worker, disk, messages_file,
                 reader, puts, gets, outcome, topic_call, branch_call,
                 status_reply, clock, app, background_tasks>>

\* POST /generate from the provider's answer on: a missing key, a failed
\* request or an invalid answer returns 500 and stores nothing; otherwise
\* the human and the assistant message are added to the partition's list
\* and start_task() is called on the routes module's processor.
generate_respond(t) ==
  /\ request[t].pc = "provider"
  /\ request' = [request EXCEPT ![t] = NoRequest]
  /\ \/ /\ UNCHANGED <<IN_MEMORY_MESSAGES, task_queue, puts, outcome>>
     \/ LET r == request[t] IN
        /\ IN_MEMORY_MESSAGES' =
             [IN_MEMORY_MESSAGES EXCEPT ![r.type] = Extend(@,
                <<[chat_name |-> r.chat_name,
                   message_id |-> GeneratedId(r.timestamp, "human")],
                  [chat_name |-> r.chat_name,
                   message_id |-> GeneratedId(r.timestamp, "assistant")]>>)]
        /\ start_task("api", None, r.type)
  /\ UNCHANGED <<worker, disk, messages_file, reader, gets, topic_call,
                 branch_call, status_reply, clock, app, background_tasks>>

\* POST /messages/add on a serving thread, up to the search for an existing
\* message: the early returns are the guard, and the thread goes on to build
\* new_message when no stored message of the partition has the chat_name and
\* message_id.
add_message_check(t, type, chat_name, message_id, text) ==
  /\ request[t].pc = "idle"
  /\ type \in ChatTypes
  /\ chat_name # None /\ message_id # None /\ text # ""
  /\ ~ \E i \in 1..Len(IN_MEMORY_MESSAGES[type]) :
         /\ IN_MEMORY_MESSAGES[type][i].message_id = message_id
         /\ IN_MEMORY_MESSAGES[type][i].chat_name = chat_name
  /\ request' = [request EXCEPT ![t] =
       [pc |-> "append", type |-> type, chat_name |-> chat_name,
        message_id |-> message_id, timestamp |-> 0]]
  /\ UNCHANGED <<IN_MEMORY_MESSAGES, task_queue, worker, disk, messages_file,
                 reader, puts, gets, outcome, topic_call, branch_call,
                 status_reply, clock, app, background_tasks>>

\* POST /messages/add from the append on: new_message joins the partition's
\* list and start_task() is called on the routes module's processor.
add_message_append(t) ==
  /\ request[t].pc = "append"
  /\ LET r == request[t] IN
     /\ IN_MEMORY_MESSAGES' =
          [IN_MEMORY_MESSAGES EXCEPT ![r.type] =
             Append(@, [chat_name |-> r.chat_name, message_id |-> r.message_id])]
     /\ start_task("api", None, r.type)
  /\ request' = [request EXCEPT ![t] = NoRequest]
  /\ UNCHANGED <<worker, disk, messages_file, reader, gets, topic_call,
                 branch_call, status_reply, clock, app, background_tasks>>

\* The requests that write the message store or start a task, served
\* concurrently.
NextStore ==
  \/ Tick
  \/ \E t \in Threads, chat_type \in RequestTypes, prompt \in {"prompt", ""} :
       generate_text(t, chat_type, "Default Chat", prompt)
  \/ \E t \in Threads : generate_respond(t)
  \/ \E t \in Threads, type \in RequestTypes, chat_name \in ChatNames \cup {None},
        message_id \in MsgIds \cup {None}, text \in {"text", ""} :
       add_message_check(t, type, chat_name, message_id, text)
  \/ \E t \in Threads : add_message_append(t)
  \/ \E type \in RequestTypes : clear_messages(type)
  \/ \E type \in RequestTypes : process_data(type)

SpecStore == Init /\ [][NextStore]_vars

\* The requests that write the message store, served one at a time, and the
\* routes module's worker on the tasks they start (a task without a file
\* ends at the load or at the conversion).
NextFrame ==
  \/ Tick
  \/ \E chat_type \in RequestTypes, prompt \in {"prompt", ""} :
       generate_text("t1", chat_type, "Default Chat", prompt)
  \/ generate_respond("t1")
  \/ \E type \in RequestTypes, chat_name \in ChatNames \cup {None},
        message_id \in MsgIds \cup {None}, text \in {"text", ""} :
       add_message(type, chat_name, message_id, text)
  \/ \E type \in RequestTypes : clear_messages(type)
  \/ Dequeue("api")
  \/ Load("api")
  \/ Convert("api")

SpecFrame == Init /\ [][NextFrame]_vars

\* --------------------------------------------- /messages/add with replies
\* The HTTP status POST /messages/add answers with, from the three early
\* returns: an unknown chat type, a missing (falsy) chat_name, message_id or
\* text, a stored message of the partition with the same message_id and
\* chat_name; 200 past them.
add_message_status(type, chat_name, message_id, text) ==
  IF type \notin ChatTypes THEN 400
  ELSE IF chat_name = None \/ message_id = None \/ text = "" THEN 400
  ELSE IF \E i \in 1..Len(IN_MEMORY_MESSAGES[type]) :
            /\ IN_MEMORY_MESSAGES[type][i].message_id = message_id
            /\ IN_MEMORY_MESSAGES[type][i].chat_name = chat_name
       THEN 400
  ELSE 200

\* The append reached whatever the handler answers.
ReachesAppendAlways(status) == TRUE

\* The append and start_task() lie after the three early returns: only a
\* request answered with 200 reaches them.
ReachesAppend(status) == status = 200

\* POST /messages/add served whole by thread t, its answer kept until the
\* thread sends it.
add_message_request(t, type, chat_name, message_id, text) ==
  /\ request[t].pc = "idle"
  /\ LET status == add_message_status(type, chat_name, message_id, text) IN
     /\ request' = [request EXCEPT ![t] = [pc |-> "replied", status |-> status]]
     /\ IF ReachesAppend(status)
        THEN /\ IN_MEMORY_MESSAGES' =
                  [IN_MEMORY_MESSAGES EXCEPT
                     ![type] = Append(@, [chat_name |-> chat_name,
                                          message_id |-> message_id])]
             /\ start_task("api", None, type)
        ELSE UNCHANGED <<IN_MEMORY_MESSAGES, task_queue, puts, outcome>>
  /\ UNCHANGED <<worker, disk, messages_file, reader, gets, topic_call,
                 branch_call, status_reply, clock, app, background_tasks>>

\* The thread sends the answer and is free for the next request.
add_message_reply(t) ==
  /\ request[t].pc = "replied"
  /\ request' = [request EXCEPT ![t] = NoRequest]
  /\ UNCHANGED <<IN_MEMORY_MESSAGES, task_queue, worker, disk, messages_file,
                 reader, puts, gets, outcome, topic_call, branch_call,
                 status_reply, clock, app, background_tasks>>

\* Requests to add and to clear messages, each answered.
NextAdd ==
  \/ \E t \in Threads, type \in RequestTypes, chat_name \in ChatNames \cup {None},
        message_id \in MsgIds \cup {None}, text \in {"text", ""} :
       add_message_request(t, type, chat_name, message_id, text)
  \/ \E t \in Threads : add_message_reply(t)
  \/ \E type \in RequestTypes : clear_messages(type)

SpecAdd == Init /\ [][NextAdd]_vars

\* ------------------------------------------------------ restart and load
\* A partition after the loop body that ignores its file.
LoadedStale(file, current) == current

\* One pass of the loop of load_in_memory_messages (src/app.py) for a
\* partition whose list is `current`: a file that exists and parses becomes
\* the partition's list; without a file the list stays; a file that
\* json.load cannot read (a file opened for writing and not yet dumped is
\* empty) is logged and the partition falls back to the empty list.
Loaded(file, current) ==
  CASE file.state = "ok" -> file.msgs
    [] file.state = "missing" -> current
    [] OTHER -> <<>>

\* The process ends (the worker threads are daemons and end with it) and is
\* started again: the modules are imported anew, which binds the store to
\* empty lists and constructs the processors with empty queues; the files
\* stay as they were left.
Restart ==
  /\ app.pc = "serving"
  /\ ~app.restarted
  /\ app' = [pc |-> "starting", restarted |-> TRUE]
  /\ IN_MEMORY_MESSAGES' = [c \in ChatTypes |-> <<>>]
  /\ task_queue' = [p \in Procs |-> <<>>]
  /\ worker' = [p \in Procs |-> Idle]
  /\ request' = [t \in Threads |-> NoRequest]
  /\ UNCHANGED <<disk, messages_file, reader, puts, gets, outcome, topic_call,
                 branch_call, status_reply, clock, background_tasks>>

\* load_in_memory_messages() in the main block, before the periodic thread
\* and the server are started: every partition of the loop is loaded, each
\* in a try of its own.
load_in_memory_messages ==
  /\ app.pc = "starting"
  /\ IN_MEMORY_MESSAGES' =
       [c \in ChatTypes |-> Loaded(messages_file[c], IN_MEMORY_MESSAGES[c])]
  /\ app' = [app EXCEPT !.pc = "serving"]
  /\ UNCHANGED <<task_queue, worker, disk, messages_file, reader, puts, gets,
                 outcome, topic_call, branch_call, status_reply, clock, request,
                 background_tasks>>

\* The server adding messages and taking uploads, its worker, and the
\* process started again at any moment, once.
NextRestart ==
  \/ /\ app.pc = "serving"
     /\ \/ \E type \in ChatTypes :
             add_message(type, "Default Chat", "m1", "text")
        \/ \E type \in ChatTypes : process_data(type)
        \/ process_queue("api")
  \/ Restart
  \/ load_in_memory_messages

SpecRestart == Init /\ [][NextRestart]_vars

\* ------------------------------------------------- get_embeddings alone
\* texts[i : i + batch_size + 1], as the positions of the slice.
batch_slice_overlapping(texts, i) ==
  [k \in 1..(Min(i + batch_size, Len(texts)) - i + 1) |-> i + k - 1]

\* texts[i : i + batch_size], as the positions (1-based) of the slice in
\* order.
batch_slice(texts, i) ==
  [k \in 1..(Min(i + batch_size - 1, Len(texts)) - i + 1) |-> i + k - 1]

\* get_embeddings with the vectors it returns: the loop over batches from
\* position i. A text is named by its position in texts and the provider
\* answers a batch with one vector per text sent, in the order sent (the
\* vector of a text carries the text's name). sent is the sequence of
\* provider calls made, each the batch it was given; the call numbered
\* fail_at raises and the function's except returns None.
RECURSIVE EmbedVectors(_, _, _, _, _)
EmbedVectors(texts, i, embeddings, sent, fail_at) ==
  IF i > Len(texts)
  THEN [none |-> FALSE, embeddings |-> embeddings, sent |-> sent]
  ELSE LET batch_texts == SelectSeq(batch_slice(texts, i), LAMBDA j : texts[j] = "ok")
       IN  IF batch_texts = <<>>
           THEN EmbedVectors(texts, i + batch_size, embeddings, sent, fail_at)
           ELSE IF Len(sent) + 1 = fail_at
           THEN [none |-> TRUE, embeddings |-> <<>>, sent |-> Append(sent, batch_texts)]
           ELSE EmbedVectors(texts, i + batch_size, embeddings \o batch_texts,
                             Append(sent, batch_texts), fail_at)

\* get_embeddings(texts) with its vectors and provider calls: [] for no
\* texts, None without OPENAI_API_KEY, otherwise the loop.
get_embeddings_vectors(texts, has_key, fail_at) ==
  IF texts = <<>> THEN [none |-> FALSE, embeddings |-> <<>>, sent |-> <<>>]
  ELSE IF ~has_key THEN [none |-> TRUE, embeddings |-> <<>>, sent |-> <<>>]
  ELSE EmbedVectors(texts, 1, <<>>, <<>>, fail_at)

\* A list of n texts, non-empty strings but for the positions in bad.
Texts(n, bad) == [j \in 1..n |-> IF j \in bad THEN "bad" ELSE "ok"]

\* Lists about one and two batches long, with texts the filter drops at the
\* ends of the batches, or a whole batch of them.
LongTexts ==
  {Texts(n, bad \cap (1..n)) :
     n \in {batch_size - 1, batch_size, batch_size + 1,
            2 * batch_size, 2 * batch_size + 1},
     bad \in {{}, {1}, {batch_size}, {batch_size + 1}, {2 * batch_size + 1},
              1..batch_size, (batch_size + 1)..(2 * batch_size + 1),
              1..(2 * batch_size)}}

\* A caller about to embed a list: any list of up to MaxN texts, or a long
\* one.
InitEmbed ==
  /\ Constructed
  /\ \E texts \in SeqsUpTo(TextKinds, MaxN) \cup LongTexts :
       topic_call = [pc |-> "embed", texts |-> texts]
  /\ branch_call = NoCall
  /\ status_reply = NoCall

\* The call returns: the key is set or not, and the provider fails at one
\* of its calls or at none.
CallEmbeddings ==
  /\ topic_call.pc = "embed"
  /\ \E has_key \in BOOLEAN, fail_at \in 0..MaxCalls(topic_call.texts) :
       topic_call' =
         [pc |-> "embedded", texts |-> topic_call.texts, has_key |-> has_key,
          fail_at |-> fail_at,
          result |-> get_embeddings_vectors(topic_call.texts, has_key, fail_at)]
  /\ UNCHANGED <<IN_MEMORY_MESSAGES, task_queue, worker, disk, messages_file,
                 reader, puts, gets, outcome, branch_call, status_reply, reqvars>>

NextEmbed == CallEmbeddings

SpecEmbed == InitEmbed /\ [][NextEmbed]_vars

\* ------------------------------------------------ start_background_tasks
\* Calls of start_background_tasks in a run.
MaxStartCalls == 4

\* What is left unchanged by a step of start_background_tasks.
OutsideBackgroundTasks ==
  <<IN_MEMORY_MESSAGES, task_queue, worker, disk, messages_file, reader, puts,
    gets, outcome, topic_call, branch_call, status_reply, clock, request, app>>

\* A thread calls start_background_tasks() and comes to `with _lock:`.
start_background_tasks(t) ==
  /\ background_tasks.pc[t] = "out"
  /\ background_tasks.calls < MaxStartCalls
  /\ background_tasks' = [background_tasks EXCEPT !.pc[t] = "with_lock",
                                                  !.calls = @ + 1]
  /\ UNCHANGED OutsideBackgroundTasks

\* `with _lock:` the thread acquires the lock when it is free.
acquire_lock(t) ==
  /\ background_tasks.pc[t] = "with_lock"
  /\ background_tasks.lock = None
  /\ background_tasks' = [background_tasks EXCEPT !.pc[t] = "test", !.lock = t]
  /\ UNCHANGED OutsideBackgroundTasks

\* `if not _background_tasks_started:` a thread that finds the flag set
\* leaves the with block (which releases the lock) and returns; otherwise it
\* sets the flag (line 22) and goes on to start the thread.
test_started(t) ==
  /\ background_tasks.pc[t] = "test"
  /\ background_tasks' =
       IF background_tasks.started
       THEN [background_tasks EXCEPT !.pc[t] = "out", !.lock = None]
       ELSE [background_tasks EXCEPT !.pc[t] = "start", !.started = TRUE]
  /\ UNCHANGED OutsideBackgroundTasks

\* threading.Thread(target=fetch_and_store_models, daemon=True).start()
\* (line 24): the thread is started, or start() raises (RuntimeError: can't
\* start new thread) and the except of line 26 logs it; either way the with
\* block is left, the lock released, and the call returns.
start_thread(t) ==
  /\ background_tasks.pc[t] = "start"
  /\ \E raised \in BOOLEAN :
       background_tasks' =
         [background_tasks EXCEPT
            !.pc[t] = "out", !.lock = None,
            !.fetch_threads = IF raised THEN @ ELSE @ + 1]
  /\ UNCHANGED OutsideBackgroundTasks

\* Threads calling start_background_tasks, one after another or at once.
NextBackgroundTasks ==
  \E t \in Callers :
    \/ start_background_tasks(t)
    \/ acquire_lock(t)
    \/ test_started(t)
    \/ start_thread(t)

SpecBackgroundTasks == Init /\ [][NextBackgroundTasks]_vars

\* ------------------------------------------------- topic labelling alone
\* A caller about to label a cluster: the messages it passes are all strings
\* or not, and the provider will behave as the script says.
InitTopic ==
  /\ Constructed
  /\ topic_call \in [pc : {"call"}, messages_are_str : BOOLEAN, script : ProviderScripts]
  /\ branch_call = NoCall
  /\ status_reply = NoCall

\* The call returns or raises.
CallTopic ==
  /\ topic_call.pc = "call"
  /\ topic_call' =
       [pc |-> "done", messages_are_str |-> topic_call.messages_are_str,
        script |-> topic_call.script,
        result |-> generate_topic_for_cluster(topic_call.messages_are_str,
                                              topic_call.script)]
  /\ UNCHANGED <<IN_MEMORY_MESSAGES, task_queue, worker, disk, messages_file,
                 reader, puts, gets, outcome, branch_call, status_reply, reqvars>>

NextTopic == CallTopic

SpecTopic == InitTopic /\ [][NextTopic]_vars

\* ------------------------------------------------- cluster metadata alone
\* Titles of a table given to generate_cluster_metadata.
MaxTitles == 6

\* The cluster labels of a table of titles.
ClusterLabels == {-1, 0, 1}

\* The calls of generate_topic_for_cluster that generate_cluster_metadata
\* makes for clusters over as many titles: one per cluster id other than -1,
\* with every title of the cluster (cluster_titles is passed whole).
MetadataCalls(clusters) ==
  {[cluster_id |-> cluster_id,
    texts |-> sample_all(Cardinality(cluster_indices(clusters, cluster_id)))] :
     cluster_id \in TopicKeys(clusters)}

\* generate_cluster_metadata(clusters, titles, distance_matrix) with the
\* labels the topic calls return: cluster_dict maps each cluster id other
\* than -1 to its topic and size.
generate_cluster_metadata(clusters, topics) ==
  [cluster_id \in TopicKeys(clusters) |->
     [topic |-> topics[cluster_id],
      size |-> Cardinality(cluster_indices(clusters, cluster_id))]]

\* A caller about to build the metadata of a clustering of up to MaxTitles
\* titles.
InitMetadata ==
  /\ Constructed
  /\ \E n \in 0..MaxTitles : \E clusters \in [1..n -> ClusterLabels] :
       topic_call = [pc |-> "metadata", clusters |-> clusters]
  /\ branch_call = NoCall
  /\ status_reply = NoCall

\* The call returns: each topic call returned one of the labels
\* generate_topic_for_cluster gives.
CallMetadata ==
  /\ topic_call.pc = "metadata"
  /\ \E topics \in [TopicKeys(topic_call.clusters) -> TopicLabels] :
       topic_call' =
         [pc |-> "returned", clusters |-> topic_call.clusters,
          calls |-> MetadataCalls(topic_call.clusters),
          cluster_dict |-> generate_cluster_metadata(topic_call.clusters, topics)]
  /\ UNCHANGED <<IN_MEMORY_MESSAGES, task_queue, worker, disk, messages_file,
                 reader, puts, gets, outcome, branch_call, status_reply, reqvars>>

NextMetadata == CallMetadata

SpecMetadata == InitMetadata /\ [][NextMetadata]_vars

\* -------------------------------------------------- branch analysis alone
Timestamps == {0, 30, 90, 155}

\* How a list's messages are spread over chats: all in one chat, or the
\* messages of two chats interleaved.
ChatPatterns ==
  {[i \in 1..MaxMsgs |-> "A"],
   [i \in 1..MaxMsgs |-> IF i % 2 = 1 THEN "A" ELSE "B"]}

\* A list of n messages whose message_id is its position, with chats,
\* parents and timestamps as given.
MessageList(n, chats, fields) ==
  [i \in 1..n |-> Message(chats[i], i, fields[i].parent, fields[i].timestamp)]

\* One chat: a root, its two children 5 s and 90 s after it.
ExampleChat ==
  <<Message("A", 1, 0, 0), Message("A", 2, 1, 5), Message("A", 3, 1, 90)>>

\* One chat: a root, two children 90 s apart, and under the later child a
\* chain of two descendants.
DeepChat ==
  <<Message("A", 1, 0, 0), Message("A", 2, 1, 5), Message("A", 3, 1, 95),
    Message("A", 4, 3, 100), Message("A", 5, 4, 105)>>

\* Three messages as add_message stores them: the parent under the key
\* parent_message, the third on branch "1".
StoredChat ==
  <<[Message("A", 1, 0, 0) EXCEPT !.parent_message = 0],
    [Message("A", 2, 0, 5) EXCEPT !.parent_message = 1],
    [Message("A", 3, 0, 90) EXCEPT !.parent_message = 1, !.branch_id = "1"]>>

\* Three stored messages, the third on branch "1" under a parent_message
\* that no message of the chat has as its message_id.
OrphanChat ==
  <<[Message("A", 1, 0, 0) EXCEPT !.parent_message = 0],
    [Message("A", 2, 0, 5) EXCEPT !.parent_message = 1],
    [Message("A", 3, 0, 90) EXCEPT !.parent_message = 9, !.branch_id = "1"]>>

\* One chat: a root and its three children, the later two sharing a
\* timestamp 90 s after the first.
TiedChat ==
  <<Message("A", 1, 0, 0), Message("A", 2, 1, 0), Message("A", 3, 1, 90),
    Message("A", 4, 1, 90)>>

\* One chat: a root, two children 90 s apart, and under the later child two
\* children 100 s apart.
NestedChat ==
  <<Message("A", 1, 0, 0), Message("A", 2, 1, 0), Message("A", 3, 1, 90),
    Message("A", 4, 3, 100), Message("A", 5, 3, 200)>>

ExampleLists ==
  {ExampleChat, DeepChat, StoredChat, OrphanChat, TiedChat, NestedChat}

\* The list whose i-th message is a dict without the key.
Lacking(messages, i, key) == [messages EXCEPT ![i].lacks = {key}]

\* A caller holding a list, before its first call.
Called(messages) ==
  [pc |-> "call", input |-> messages, messages |-> messages,
   runs |-> <<>>, branched |-> <<>>]

\* The caller's list is any list of up to MaxMsgs messages (any timestamp;
\* any parent among the ids, its own and later ones included, or none), or
\* one of the example lists, or an example list one message of which lacks
\* one of the required keys.
InitBranches ==
  /\ Constructed
  /\ topic_call = NoCall
  /\ status_reply = NoCall
  /\ \/ \E n \in 0..MaxMsgs, chats \in ChatPatterns :
          \E fields \in [1..n -> [parent : 0..MaxMsgs, timestamp : Timestamps]] :
            branch_call = Called(MessageList(n, chats, fields))
     \/ \E messages \in ExampleLists : branch_call = Called(messages)
     \/ \E messages \in ExampleLists :
          \E i \in 1..Len(messages), key \in RequiredKeys :
            branch_call = Called(Lacking(messages, i, key))

\* A caller runs analyze_branches on its list, up to twice.
AnalyzeBranches ==
  /\ branch_call.pc = "call"
  /\ Len(branch_call.runs) < 2
  /\ branch_call' =
       [branch_call EXCEPT !.runs = Append(@, analyze_branches(branch_call.messages)),
                           !.messages = MessagesAfter(@)]
  /\ UNCHANGED <<IN_MEMORY_MESSAGES, task_queue, worker, disk, messages_file,
                 reader, puts, gets, outcome, topic_call, status_reply, reqvars>>

\* The route answers for a partition holding the list.
GetBranched ==
  /\ branch_call.pc = "call"
  /\ Len(branch_call.runs) = 2
  /\ branch_call.branched = <<>>
  /\ branch_call.messages # <<>>
  /\ branch_call' =
       [branch_call EXCEPT !.branched = get_branched_messages(branch_call.messages)]
  /\ UNCHANGED <<IN_MEMORY_MESSAGES, task_queue, worker, disk, messages_file,
                 reader, puts, gets, outcome, topic_call, status_reply, reqvars>>

NextBranches == AnalyzeBranches \/ GetBranched

SpecBranches == InitBranches /\ [][NextBranches]_vars

\* ------------------------------------------------------------------ claims
Terminal == {"completed", "failed", "noop"}
Busy(p) == worker[p].pc # "get"
Tasks == 1..Len(outcome)
RECURSIVE Count(_, _)
Count(q, x) ==
  IF q = <<>> THEN 0 ELSE (IF Head(q) = x THEN 1 ELSE 0) + Count(Tail(q), x)
QueuedSeqs(p) == [i \in 1..Len(task_queue[p]) |-> task_queue[p][i].seq]
\* The files of partition c that task s wrote or truncated.
TouchedBy(s, c) ==
  {f \in ArtifactFiles : disk[c][f].gen = s} \cup
  (IF messages_file[c].gen = s THEN {"messages"} ELSE {})

\* C1: at any instant at most one pipeline execution is in progress for a
\* partition: no two worker threads, over all BackgroundProcessor instances,
\* are at once between dequeuing a task and finishing it for the same
\* chat type.
C1_AtMostOneExecutionPerPartition ==
  \A p, q \in Procs :
    (p # q /\ Busy(p) /\ Busy(q) /\ worker[p].chat_type # None)
      => worker[p].chat_type # worker[q].chat_type

\* C2: if task A is put on a queue before task B, B's load step never starts
\* while A is between its load and the end of its persist step.
C2_LaterTaskLoadsAfterEarlierEnds ==
  [][\A q \in Procs :
       (worker[q].pc = "load" /\ worker'[q].pc # "load")
         => \A p \in Procs \ {q} :
              (Busy(p) /\ worker[p].task.seq < worker[q].task.seq)
                => worker[p].pc = "load"]_vars

\* C3: each worker takes the tasks of its queue in the order start_task put
\* them: what it has dequeued so far is a prefix of what was put.
C3_FifoOrder ==
  \A p \in Procs :
    /\ Len(gets[p]) <= Len(puts[p])
    /\ \A i \in 1..Len(gets[p]) : gets[p][i] = puts[p][i]

\* C3 witness: two tasks were put on one queue and both have been dequeued.
C3_Witness ==
  \E p \in Procs : Len(gets[p]) >= 2

\* The positions of a worker thread inside its loop.
LoopStages ==
  {"get", "load", "convert", "embed", "reduce", "cluster", "label"} \cup SaveStages

\* C4: a failing task never halts the queue: whatever stage a task failed
\* in, the worker thread that ran it is still in its loop and done with that
\* task, and when it waits with a task queued, taking that task is possible.
C4_WorkerSurvivesFailure ==
  \A p \in Procs :
    \A i \in 1..Len(gets[p]) :
      outcome[gets[p][i]].status = "failed" =>
        /\ worker[p].pc \in LoopStages
        /\ worker[p].task.seq # gets[p][i]
        /\ (worker[p].pc = "get" /\ task_queue[p] # <<>>) => ENABLED Dequeue(p)

\* C4 witness: a worker's task failed while writing the artifacts and the same
\* worker has gone on to dequeue the next task.
C4_Witness ==
  \E p \in Procs :
    /\ Len(gets[p]) >= 2
    /\ outcome[gets[p][1]].status = "failed"
    /\ outcome[gets[p][1]].stage \in SaveStages
    /\ outcome[gets[p][2]].status # "queued"

\* C5: every task start_task created is consumed exactly once: it is either
\* still waiting in a queue or has been dequeued once, never both, never
\* twice, never neither; once dequeued it is in no queue again.
C5_ConsumedExactlyOnce ==
  \A s \in Tasks :
    LET queued == Count(QueuedSeqs("app"), s) + Count(QueuedSeqs("api"), s)
        run == Count(gets["app"], s) + Count(gets["api"], s)
    IN  /\ queued + run = 1
        /\ (outcome[s].status = "queued") = (queued = 1)

\* C5 witness: one task ended as a no-op, another failed, and neither is on a
\* queue.
C5_Witness ==
  /\ \E a, b \in Tasks : outcome[a].status = "noop" /\ outcome[b].status = "failed"
  /\ \A p \in Procs : task_queue[p] = <<>>

\* C6: the worker works on a snapshot taken at task start: the message list a
\* task writes to <chat_type>_messages.json is the partition's list as it was
\* when the task loaded its data, whatever was appended or cleared meanwhile.
C6_PersistedSnapshotIsTaskStartSnapshot ==
  \A c \in ChatTypes :
    messages_file[c].state = "ok"
      => messages_file[c].msgs = outcome[messages_file[c].gen].snap

\* C7: when an embedding provider call fails, the task fails at the embedding
\* stage, the failed call is the last provider call the task makes (no
\* retry), and the task writes or truncates no file of any partition.
C7_EmbeddingFailurePersistsNothing ==
  \A s \in Tasks :
    outcome[s].provider_error =>
      /\ outcome[s].status = "failed"
      /\ outcome[s].stage = "embed"
      /\ outcome[s].calls = outcome[s].failed_call
      /\ \A c \in ChatTypes : TouchedBy(s, c) = {}

\* C7 witness: a task's provider call failed on its second batch, after the
\* first batch was embedded, while an earlier task's complete artifact set is
\* on disk.
C7_Witness ==
  \E s \in Tasks :
    /\ outcome[s].provider_error
    /\ outcome[s].failed_call = 2
    /\ \E c \in ChatTypes, g \in Tasks :
         /\ outcome[g].status = "completed"
         /\ TouchedBy(g, c) = ArtifactFiles \cup {"messages"}

\* C8: when an error occurs at any point of the artifact-writing step the
\* previous generation's files are all left untouched: a task that failed
\* while saving has written or truncated no file.
C8_FailedSaveLeavesPriorArtifacts ==
  \A s \in Tasks :
    (outcome[s].status = "failed" /\ outcome[s].stage \in SaveStages)
      => \A c \in ChatTypes : TouchedBy(s, c) = {}

\* C9: a read of a partition's artifacts concurrent with a task's save step
\* returns points, clusters, topics and titles of one generation (with no
\* failed task involved, so that every generation on disk is a complete one).
C9_ReadIsOneGeneration ==
  (reader.pc = "done" /\ \A s \in Tasks : outcome[s].status # "failed")
    => \A f \in {"clusters", "topics", "chat_titles"} :
         reader.data[f].gen = reader.data["embeddings_2d"].gen

\* C10: for every successfully completed run, the persisted artifact set has
\* len(points) = len(clusters) = len(titles).
C10_CompletedRunLengthsAgree ==
  \A c \in ChatTypes :
    LET g == disk[c]["embeddings_2d"].gen IN
    (/\ g \in Tasks
     /\ outcome[g].status = "completed"
     /\ \A f \in ArtifactFiles : disk[c][f].gen = g)
      => /\ disk[c]["embeddings_2d"].len = disk[c]["clusters"].len
         /\ disk[c]["clusters"].len = disk[c]["chat_titles"].len

\* The script's provider fails on exactly its first k calls.
FailsFirst(script, k) ==
  /\ \A i \in 1..k : Raises(script[i])
  /\ k < 3 => ~Raises(script[k + 1])

\* C11: a generate_topic_for_cluster call (on string messages) whose provider
\* fails exactly twice and then succeeds returns the label of the third
\* response, not "Error", after three calls; one whose provider fails three
\* times returns "Error" and does not raise.
C11_TopicRetries ==
  (topic_call.pc = "done" /\ topic_call.messages_are_str) =>
    LET script == topic_call.script
        result == topic_call.result IN
    /\ FailsFirst(script, 2) =>
          /\ ~result.raised
          /\ result.calls = 3
          /\ result.topic # "Error"
          /\ result.topic =
               (IF strip(script[3]) # "" THEN strip(script[3]) ELSE "Miscellaneous")
    /\ FailsFirst(script, 3) =>
          /\ ~result.raised
          /\ result.topic = "Error"

C11_Witness ==
  /\ topic_call.pc = "done"
  /\ topic_call.messages_are_str
  /\ FailsFirst(topic_call.script, 2)
  /\ topic_call.script[3] = "Topic"
  /\ topic_call.result.topic = "Topic"

\* The first run of analyze_branches on the caller's list has returned.
Analysed == branch_call.pc = "call" /\ Len(branch_call.runs) >= 1 /\ ~branch_call.runs[1].raised

\* The chats of the caller's list.
InputChats == {branch_call.input[i].chat_name : i \in 1..Len(branch_call.input)}

\* The edit branches the first run returned for a chat under one parent.
BranchesUnder(name, pid) ==
  SelectSeq(branch_call.runs[1].stats[name].edit_branches,
            LAMBDA b : b.parent_message = pid)

\* The children of a parent in a chat of the caller's list.
InputChildren(name, pid) == ChildrenOf(ChatMessages(branch_call.input, name), pid)

\* The parent ids that occur in the caller's list.
InputParents ==
  {branch_call.input[i].parent_message_id : i \in 1..Len(branch_call.input)} \ {0}

\* Of two children, the one with the later timestamp.
Later(kids) == IF kids[1].timestamp <= kids[2].timestamp THEN kids[2] ELSE kids[1]

\* The seconds between two children.
Gap(kids) ==
  IF kids[1].timestamp <= kids[2].timestamp
  THEN kids[2].timestamp - kids[1].timestamp
  ELSE kids[1].timestamp - kids[2].timestamp

\* C12: when analyze_branches returns, for a parent with exactly two children
\* in a chat: less than 60 s apart, no edit branch is produced under that
\* parent; more than 60 s apart, exactly one, rooted at the later child.
C12_TwoChildren ==
  Analysed =>
    \A name \in InputChats, pid \in InputParents :
      LET kids == InputChildren(name, pid) IN
      Len(kids) = 2 =>
        /\ Gap(kids) < 60 => BranchesUnder(name, pid) = <<>>
        /\ Gap(kids) > 60 =>
              /\ Len(BranchesUnder(name, pid)) = 1
              /\ BranchesUnder(name, pid)[1].edit.message_id = Later(kids).message_id
              /\ BranchesUnder(name, pid)[1].time_gap = Gap(kids)

\* A parent whose later child comes first in the list, more than 60 s after
\* the other, and its one edit branch.
C12_Witness ==
  /\ Analysed
  /\ \E name \in InputChats, pid \in InputParents :
       LET kids == InputChildren(name, pid) IN
       /\ Len(kids) = 2
       /\ kids[1].timestamp > kids[2].timestamp + 60
       /\ Len(BranchesUnder(name, pid)) = 1
       /\ BranchesUnder(name, pid)[1].edit = kids[1]

\* The messages of a chat reachable from the messages `found` through
\* parent_message_id.
RECURSIVE Reachable(_, _)
Reachable(chat_messages, found) ==
  LET ids == {m.message_id : m \in found}
      more == found \cup {chat_messages[i] : i \in
                {j \in 1..Len(chat_messages) : chat_messages[j].parent_message_id \in ids}}
  IN IF more = found THEN found ELSE Reachable(chat_messages, more)

\* C13: when analyze_branches returns, every message reachable from the root
\* of an edit branch through the parent-to-children index, at any depth, is
\* in that branch's branch_messages.
C13_DescendantsCollected ==
  Analysed =>
    \A name \in InputChats :
      LET edit_branches == branch_call.runs[1].stats[name].edit_branches IN
      \A k \in 1..Len(edit_branches) :
        Reachable(ChatMessages(branch_call.input, name), {edit_branches[k].edit})
          \subseteq {edit_branches[k].branch_messages[i] :
                       i \in 1..Len(edit_branches[k].branch_messages)}

\* The edit branch of the deep chat holds the flagged child, its child and
\* its grandchild.
C13_Witness ==
  /\ Analysed
  /\ branch_call.input = DeepChat
  /\ Len(branch_call.runs[1].stats["A"].edit_branches) = 1
  /\ LET b == branch_call.runs[1].stats["A"].edit_branches[1] IN
     /\ b.edit.message_id = 3
     /\ Len(b.branch_messages) = 3
     /\ b.branch_messages[3].message_id = 5

C15_ExampleBranches ==
  (Analysed /\ branch_call.input = ExampleChat /\ branch_call.branched # <<>>) =>
    LET main_branch == branch_call.branched["A"].main_branch
        edit_branches == branch_call.runs[1].stats["A"].edit_branches IN
    /\ [i \in 1..Len(main_branch) |-> main_branch[i].message_id] = <<1, 2>>
    /\ Len(edit_branches) = 1
    /\ edit_branches[1].edit.message_id = 3
    /\ edit_branches[1].time_gap = 85

\* C16: a task whose data is empty is a no-op: no artifact file is written
\* or truncated by it, it is on no queue again and was dequeued once, and the
\* worker that took it is in its loop, done with it, able to take the next
\* task.
C16_EmptySourceIsNoOp ==
  \A p \in Procs :
    \A i \in 1..Len(gets[p]) :
      LET s == gets[p][i] IN
      outcome[s].status = "noop" =>
        /\ \A c \in ChatTypes : TouchedBy(s, c) = {}
        /\ \A q \in Procs : Count(QueuedSeqs(q), s) = 0
        /\ \A q \in Procs : Count(gets[q], s) = (IF q = p THEN 1 ELSE 0)
        /\ worker[p].pc \in LoopStages
        /\ worker[p].task.seq # s
        /\ (worker[p].pc = "get" /\ task_queue[p] # <<>>) => ENABLED Dequeue(p)

\* A worker's first task was a no-op and it has taken its second.
C16_Witness ==
  \E p \in Procs :
    /\ Len(gets[p]) = 2
    /\ outcome[gets[p][1]].status = "noop"
    /\ outcome[gets[p][2]].status = "running"

\* C17: a task started by an append to partition P works on P: once it has
\* loaded its data, its chat type is P.
C17_TaskWorksOnItsPartition ==
  \A p \in Procs :
    (Busy(p) /\ worker[p].chat_type # None
       /\ outcome[worker[p].task.seq].partition # None)
      => worker[p].chat_type = outcome[worker[p].task.seq].partition

\* C18: a task whose texts hold a malformed entry (empty or not a string)
\* beside a well-formed one is not ended by it: its embedding step, when the
\* API key is set and no provider call raises, takes the task on to the
\* next stage.
C18_MalformedTextsAreSkipped ==
  [][\A p \in Procs :
       (/\ worker[p].pc = "embed"
        /\ \E i \in 1..Len(worker[p].texts) : worker[p].texts[i] = "bad"
        /\ \E i \in 1..Len(worker[p].texts) : worker[p].texts[i] = "ok"
        /\ worker'[p].pc # "embed")
         => \/ worker'[p].pc = "reduce"
            \/ outcome'[worker[p].task.seq].provider_error
            \/ outcome'[worker[p].task.seq].calls = 0]_vars

\* C19: reading a partition's artifacts never raises: a read that met a
\* file it could not parse returns the empty artifact set, and so does a
\* read of a partition none of whose files exists.
C19_ReadNeverRaises ==
  /\ reader.pc # "raised"
  /\ (reader.pc = "done" /\ reader.error)
       => \A f \in ArtifactFiles : reader.data[f] = Missing
  /\ (reader.pc = "done" /\ \A f \in ArtifactFiles : disk[reader.dir][f].state = "missing")
       => \A f \in ArtifactFiles : reader.data[f] = Missing

\* A read that took the points of a complete file and then met a
\* clusters file an earlier task had left truncated.
C19_Witness ==
  /\ reader.pc = "done"
  /\ reader.error
  /\ disk[reader.dir]["embeddings_2d"].state = "ok"
  /\ disk[reader.dir]["clusters"].state = "partial"
  /\ disk[reader.dir]["clusters"].gen < disk[reader.dir]["embeddings_2d"].gen

\* The status of the lookup interface a task has: an empty task has
\* completed.
StatusOf(seq) ==
  IF outcome[seq].status = "noop" THEN "completed" ELSE outcome[seq].status

\* C20: every answer of the status lookup for an enqueued task carries a
\* status among queued, running, completed and failed, the one the task has
\* at that moment, and a non-null error when the task has failed.
C20_StatusTracksTask ==
  [][status_reply' # status_reply =>
       /\ status_reply'.status \in {"queued", "running", "completed", "failed"}
       /\ status_reply'.status = StatusOf(status_reply'.task)
       /\ status_reply'.status = "failed" => status_reply'.error # None]_vars

\* C21: in every reachable state of the message store, message_id is unique
\* within a chat_name of a partition, however the add-message, generate and
\* upload requests of concurrent threads interleave.
C21_MessageIdUniqueInChat ==
  \A c \in ChatTypes :
    \A i, j \in 1..Len(IN_MEMORY_MESSAGES[c]) :
      (/\ i # j
       /\ IN_MEMORY_MESSAGES[c][i].chat_name = IN_MEMORY_MESSAGES[c][j].chat_name)
        => IN_MEMORY_MESSAGES[c][i].message_id # IN_MEMORY_MESSAGES[c][j].message_id

\* C22: start_task returns a fresh identifier: any two calls, those of
\* concurrent producers and those within one clock tick included, return
\* distinct task_ids, and task_ids increase in creation order.
C22_TaskIdsFreshAndMonotonic ==
  \A i, j \in 1..Len(outcome) :
    i < j => outcome[i].task_id < outcome[j].task_id

\* C23: in branch analysis a message missing any of the five required
\* fields is skipped: the analysis does not fail and gives what it gives for
\* the remaining messages, in analyze_branches and in GET /messages/branched.
C23_IncompleteMessagesSkipped ==
  branch_call.pc = "call" =>
    /\ \A k \in 1..Len(branch_call.runs) :
         branch_call.runs[k] = analyze_branches(WithRequiredKeys(branch_call.input))
    /\ branch_call.branched # <<>> =>
         branch_call.branched = get_branched_messages(WithRequiredKeys(branch_call.input))

\* The message ids of a chat of the caller's list.
InputIds(name) ==
  LET chat_messages == ChatMessages(branch_call.input, name) IN
  {chat_messages[i].message_id : i \in 1..Len(chat_messages)}

\* C24: when the parent reference of a branch resolves to no message in the
\* chat, the branch is still emitted and its parent_message is null, in the
\* result of analyze_branches (null parent id: 0) and in the answer of
\* GET /messages/branched.
C24_DanglingParentIsNull ==
  /\ Analysed =>
       \A name \in InputChats, pid \in InputParents :
         LET kids == InputChildren(name, pid) IN
         (Len(kids) = 2 /\ Gap(kids) > 60 /\ pid \notin InputIds(name)) =>
           /\ Len(BranchesUnder(name, 0)) + Len(BranchesUnder(name, pid)) >= 1
           /\ BranchesUnder(name, pid) = <<>>
  /\ (branch_call.pc = "call" /\ branch_call.branched # <<>>) =>
       \A name \in DOMAIN branch_call.branched :
         \A branch_id \in DOMAIN branch_call.branched[name].branches :
           LET branch == branch_call.branched[name].branches[branch_id] IN
           branch.branch_messages[1].parent_message \notin InputIds(name) =>
             branch.parent_message = None

\* A worker whose topic loop has ended.
Labelled(p) == worker[p].pc \in SaveStages

\* C25: noise points are excluded from topic generation: in every pipeline
\* run the topics map has no entry for cluster id -1, the topic provider is
\* not called for the noise label, and every key of the topics map is a
\* cluster id that occurs in clusters.
C25_NoiseExcludedFromTopics ==
  \A p \in Procs :
    Labelled(p) =>
      LET w == worker[p] IN
      /\ -1 \notin DOMAIN w.topics
      /\ \A call \in w.labelled : call.cluster_id # -1
      /\ DOMAIN w.topics \subseteq {w.clusters[i] : i \in 1..Len(w.clusters)}
      /\ DOMAIN w.topics = {call.cluster_id : call \in w.labelled}

\* A run whose clustering left noise points beside a cluster, labelled.
C25_Witness ==
  \E p \in Procs :
    /\ Labelled(p)
    /\ \E i, j \in 1..Len(worker[p].clusters) :
         worker[p].clusters[i] = -1 /\ worker[p].clusters[j] # -1
    /\ worker[p].topics # <<>>

\* C26: the topic labeler is given at most 5 representative texts of one
\* cluster: on every path that labels a cluster (the worker's topic loop,
\* generate_cluster_metadata) generate_topic_for_cluster is called with no
\* more than 5 texts.
C26_AtMostFiveTexts ==
  /\ \A p \in Procs : \A call \in worker[p].labelled : call.texts <= 5
  /\ topic_call.pc = "returned" =>
       \A call \in topic_call.calls : call.texts <= 5

\* A labelled run one cluster of which exhausted the labeler's retries.
HasFailedLabel(p) ==
  /\ Labelled(p)
  /\ \E cluster_id \in DOMAIN worker[p].topics :
       worker[p].topics[cluster_id] = "Error"

\* C27: one bad cluster never aborts the rest of labeling: when labeling one
\* cluster exhausts its retries, every cluster other than noise still has
\* its label in the topics map, the failed one the sentinel, and the task
\* goes on to complete and persist its artifacts (writing the topics map
\* does not raise of its own).
C27_BadClusterDoesNotAbort ==
  \A p \in Procs :
    HasFailedLabel(p) =>
      /\ DOMAIN worker[p].topics = TopicKeys(worker[p].clusters)
      /\ \A f \in ArtifactFiles : ~DumpRaises(worker[p], f)

\* The list `longer` is the list `list` with messages appended (or none).
ExtendedBy(list, longer) ==
  /\ Len(list) <= Len(longer)
  /\ SubSeq(longer, 1, Len(list)) = list

\* C28: stored messages are never mutated and are removed only by bulk
\* clear: over every step of a request or of the worker, each partition's
\* list is its previous list with messages appended, or it is the empty list
\* of a clear, which starts no task and leaves the other partitions as they
\* were.
C28_AppendOrBulkClear ==
  [][\A c \in ChatTypes :
       \/ ExtendedBy(IN_MEMORY_MESSAGES[c], IN_MEMORY_MESSAGES'[c])
       \/ /\ IN_MEMORY_MESSAGES'[c] = <<>>
          /\ outcome' = outcome
          /\ \A d \in ChatTypes \ {c} : IN_MEMORY_MESSAGES'[d] = IN_MEMORY_MESSAGES[d]]_vars

\* The deepseek partition was appended to by add_message and then cleared,
\* while the chatgpt partition holds the two messages of a generation, and
\* the worker has taken both tasks.
C28_Witness ==
  /\ IN_MEMORY_MESSAGES["deepseek"] = <<>>
  /\ Len(outcome) = 2
  /\ outcome[1].partition = "deepseek"
  /\ outcome[2].partition = "chatgpt"
  /\ Len(IN_MEMORY_MESSAGES["chatgpt"]) = 2
  /\ IN_MEMORY_MESSAGES["chatgpt"][2].message_id = GeneratedId(clock, "assistant")
  /\ Len(gets["api"]) = 2

\* C29: generate_topic_for_cluster calls the provider at most 3 times per
\* label, stops at the first success, sleeps 2^attempt seconds between
\* attempts (1 s after the first failure, 2 s after the second) and does
\* not sleep after the third failure.
C29_AttemptsAndBackoff ==
  (topic_call.pc = "done" /\ topic_call.messages_are_str) =>
    LET result == topic_call.result IN
    /\ result.calls <= 3
    /\ \A k \in 0..3 :
         FailsFirst(topic_call.script, k) =>
           /\ result.calls = Min(k + 1, 3)
           /\ result.slept = (CASE k = 0 -> 0 [] k = 1 -> 1 [] OTHER -> 1 + 2)

\* A call whose three attempts all failed: three calls, 3 s slept in all.
C29_Witness ==
  /\ topic_call.pc = "done"
  /\ topic_call.messages_are_str
  /\ FailsFirst(topic_call.script, 3)
  /\ topic_call.result.calls = 3
  /\ topic_call.result.slept = 3

\* The children of a parent in a chat of the caller's list, by timestamp.
SortedChildren(name, pid) == SortByTimestamp(InputChildren(name, pid))

\* The seconds between the i-th of the sorted children and the next.
GapAfter(kids, i) == kids[i + 1].timestamp - kids[i].timestamp

\* C30: for a parent with k >= 2 children sorted by timestamp,
\* analyze_branches emits one edit branch for each consecutive gap strictly
\* greater than 60 s and none for the other gaps (none for a gap of exactly
\* 60 s); each branch is rooted at the later sibling of its gap and records
\* that gap as time_gap.
C30_OneBranchPerLongGap ==
  Analysed =>
    \A name \in InputChats, pid \in InputParents :
      LET kids == SortedChildren(name, pid)
          long == {i \in 1..(Len(kids) - 1) : GapAfter(kids, i) > 60}
          found == BranchesUnder(name, pid)
      IN Len(kids) >= 2 =>
           /\ Len(found) = Cardinality(long)
           /\ \A i \in long :
                \E k \in 1..Len(found) :
                  /\ found[k].edit = kids[i + 1]
                  /\ found[k].original = kids[i]
                  /\ found[k].time_gap = GapAfter(kids, i)
           /\ \A k \in 1..Len(found) :
                \E i \in long : found[k].edit = kids[i + 1]

\* A parent with three children whose gaps are exactly 60 s and then 65 s:
\* its one edit branch is rooted at the third.
C30_Witness ==
  /\ Analysed
  /\ \E name \in InputChats, pid \in InputParents :
       LET kids == SortedChildren(name, pid) IN
       /\ Len(kids) = 3
       /\ GapAfter(kids, 1) = 60
       /\ GapAfter(kids, 2) = 65
       /\ Len(BranchesUnder(name, pid)) = 1
       /\ BranchesUnder(name, pid)[1].edit = kids[3]
       /\ BranchesUnder(name, pid)[1].time_gap = 65

\* Every task created so far has a terminal outcome.
AllEnded == \A s \in 1..Len(outcome) : outcome[s].status \in Terminal

\* C31: under a fair scheduler and provider calls that always return, every
\* task put on the queue is eventually dequeued and reaches a terminal
\* outcome (completed, failed or no-op), and the worker thread never leaves
\* its loop: again and again every task created so far has ended (a task
\* once created stays created, so each task is among them from then on).
C31_EveryTaskEnds ==
  /\ [](\A p \in Procs : worker[p].pc # "exited")
  /\ []<>AllEnded

\* Every task the bound allows was created and has ended, one of them
\* completed and one failed or without data.
C31_Witness ==
  /\ Len(outcome) = MaxTasks
  /\ \A s \in 1..MaxTasks : outcome[s].status \in Terminal
  /\ \E s \in 1..MaxTasks : outcome[s].status = "completed"
  /\ \E s \in 1..MaxTasks : outcome[s].status # "completed"
  /\ task_queue["api"] = <<>>

\* Every message of the caller's list has every key.
InputComplete == \A i \in 1..Len(branch_call.input) : branch_call.input[i].lacks = {}

\* C32: analyze_branches terminates on every finite message list, lists
\* whose parent_message_id references form a cycle included: the descendant
\* collection for a flagged child visits finitely many messages and the call
\* returns its result.
C32_AnalysisReturns ==
  (branch_call.pc = "call" /\ InputComplete) =>
    \A k \in 1..Len(branch_call.runs) : ~branch_call.runs[k].raised

\* The list in the opposite order.
Reversed(messages) ==
  [i \in 1..Len(messages) |-> messages[Len(messages) + 1 - i]]

\* Every message names as parent a message of smaller id, or none: the
\* parent relation has no cycle.
ParentsEarlier(messages) ==
  \A i \in 1..Len(messages) :
    messages[i].parent_message_id < messages[i].message_id

\* The edit branches of a result as a set: per chat, the flagged child, the
\* gap and the set of collected messages.
BranchSet(run) ==
  UNION {{[chat |-> name,
           root |-> run.stats[name].edit_branches[k].edit.message_id,
           time_gap |-> run.stats[name].edit_branches[k].time_gap,
           members |-> {run.stats[name].edit_branches[k].branch_messages[j].message_id :
                          j \in 1..Len(run.stats[name].edit_branches[k].branch_messages)}] :
            k \in 1..Len(run.stats[name].edit_branches)} :
         name \in DOMAIN run.stats}

\* C33: the result of analyze_branches does not depend on the order of its
\* input: the same messages in another order give the same set of edit
\* branches (root, time_gap, set of branch_messages), siblings that share a
\* timestamp included.
C33_OrderIndependent ==
  (/\ branch_call.pc = "call"
   /\ InputComplete
   /\ ParentsEarlier(branch_call.input)
   /\ branch_call.runs # <<>>) =>
    BranchSet(branch_call.runs[1]) =
      BranchSet(analyze_branches(Reversed(branch_call.input)))

\* The edit branches of every chat of a result, as a set.
EditBranches(run) ==
  UNION {{run.stats[name].edit_branches[k] :
            k \in 1..Len(run.stats[name].edit_branches)} :
         name \in DOMAIN run.stats}

\* C34: in every edit branch, branch_messages lists parents before
\* children: its first element is the flagged child, and every other element
\* names as parent_message_id the message_id of an earlier element.
C34_ParentBeforeChild ==
  branch_call.pc = "call" =>
    \A r \in 1..Len(branch_call.runs) :
      \A b \in EditBranches(branch_call.runs[r]) :
        /\ b.branch_messages # <<>>
        /\ b.branch_messages[1] = b.edit
        /\ \A j \in 2..Len(b.branch_messages) :
             \E i \in 1..(j - 1) :
               b.branch_messages[i].message_id =
                 b.branch_messages[j].parent_message_id

C34_Witness ==
  /\ branch_call.pc = "call"
  /\ branch_call.runs # <<>>
  /\ \E b \in EditBranches(branch_call.runs[1]) : Len(b.branch_messages) >= 3

\* The messages an edit branch collected, as a set.
Members(b) == {b.branch_messages[j] : j \in 1..Len(b.branch_messages)}

\* C35: the edit branches of one chat are disjoint: for a list whose parent
\* relation has no cycle, no message is in the branch_messages of two
\* different edit branches of the result.
C35_BranchesDisjoint ==
  (/\ branch_call.pc = "call"
   /\ InputComplete
   /\ ParentsEarlier(branch_call.input)) =>
    \A r \in 1..Len(branch_call.runs) :
      \A name \in DOMAIN branch_call.runs[r].stats :
        LET edit_branches == branch_call.runs[r].stats[name].edit_branches IN
        \A k1, k2 \in 1..Len(edit_branches) :
          k1 # k2 => Members(edit_branches[k1]) \cap Members(edit_branches[k2]) = {}

\* Thread t has just answered a request to add a message with 400.
Rejects(t) ==
  /\ request[t].pc = "idle"
  /\ request'[t].pc = "replied"
  /\ request'[t].status = 400

\* C36: a rejected add-message request (an invalid chat type, a missing
\* chat_name, message_id or text, a repeated chat_name and message_id)
\* leaves the message store unchanged and enqueues no background task.
C36_RejectedAddHasNoEffect ==
  [][\A t \in Threads :
       Rejects(t) => /\ IN_MEMORY_MESSAGES' = IN_MEMORY_MESSAGES
                     /\ task_queue' = task_queue
                     /\ puts' = puts
                     /\ outcome' = outcome]_vars

\* A request was rejected while the deepseek partition held a message, one
\* task had been started and another could still be.
C36_Witness ==
  /\ \E t \in Threads : request[t].pc = "replied" /\ request[t].status = 400
  /\ Len(IN_MEMORY_MESSAGES["deepseek"]) = 1
  /\ Len(outcome) = 1
  /\ Len(task_queue["api"]) = 1

Passing(texts) == {j \in 1..Len(texts) : texts[j] = "ok"}

\* The positions of the b-th run of batch_size consecutive texts (b from 0).
Block(b) == (b * batch_size + 1)..((b + 1) * batch_size)

\* The runs that hold a text that passes the filter.
SentBlocks(texts) ==
  {b \in 0..(MaxCalls(texts) - 1) : Passing(texts) \cap Block(b) # {}}

\* A sequence of positions in input order that lists exactly the set.
ListsInOrder(seq, set) ==
  /\ {seq[k] : k \in 1..Len(seq)} = set
  /\ \A k \in 1..(Len(seq) - 1) : seq[k] < seq[k + 1]

\* C38: get_embeddings calls the provider sequentially, once per batch of
\* at most 100 consecutive texts in input order (with the texts of the batch
\* that pass the filter), and on success returns the vectors concatenated in
\* batch order, one per text that passed the filter; an empty list gives []
\* without a call, and a provider failure gives None.
C38_BatchesInOrder ==
  topic_call.pc = "embedded" =>
    LET texts == topic_call.texts
        r == topic_call.result
        blocks == SentBlocks(texts)
        fails == topic_call.fail_at \in 1..Cardinality(blocks)
    IN
    /\ texts = <<>> => ~r.none /\ r.embeddings = <<>> /\ r.sent = <<>>
    /\ (texts # <<>> /\ topic_call.has_key) =>
         /\ r.none = fails
         /\ Len(r.sent) = IF fails THEN topic_call.fail_at ELSE Cardinality(blocks)
         /\ \A k \in 1..Len(r.sent) :
              /\ Len(r.sent[k]) <= batch_size
              /\ \E b \in blocks :
                   /\ Cardinality({a \in blocks : a <= b}) = k
                   /\ ListsInOrder(r.sent[k], Passing(texts) \cap Block(b))
         /\ ~fails => ListsInOrder(r.embeddings, Passing(texts))

\* A list of two full batches and one more text, one of whose texts the
\* filter dropped, was embedded in three calls.
C38_Witness ==
  /\ topic_call.pc = "embedded"
  /\ Len(topic_call.texts) = 2 * batch_size + 1
  /\ ~topic_call.result.none
  /\ Len(topic_call.result.sent) = 3
  /\ Len(topic_call.result.embeddings) = 2 * batch_size

\* A call of start_background_tasks returns in this step.
CallReturns ==
  \E t \in Callers :
    background_tasks.pc[t] # "out" /\ background_tasks'.pc[t] = "out"

\* C39: start_background_tasks starts the model-fetching thread at most
\* once: whatever the number of calls, one after another or at once,
\* exactly one fetch_and_store_models thread is ever started (one has been
\* started whenever a call returns, and never a second), and
\* _background_tasks_started never returns to False.
C39_ExactlyOneFetchThread ==
  [][/\ background_tasks.started => background_tasks'.started
     /\ background_tasks'.fetch_threads <= 1
     /\ CallReturns => background_tasks'.fetch_threads = 1]_vars

====
